---- MODULE Spec2Model ----
(***************************************************************************)
(* A model of the HoneyBadger JavaScript parser.                           *)
(*                                                                         *)
(* The repository holds two parsers.  core/src/parser.rs is the Vec-based  *)
(* parser: every production returns Result and the first error aborts the  *)
(* parse.  core/src/parser/{statement,macros,error}.rs is the statement    *)
(* layer of the arena-based parser: productions return nodes, errors are   *)
(* pushed on Parser::errors and an Error node stands in.  The variable     *)
(* parser.impl says which of the two is running ("vec" or "arena").        *)
(*                                                                         *)
(* The source text is modelled after tokenization: parser.src is the       *)
(* sequence of tokens the tokenizer yields, each with the flag nl that     *)
(* says whether a line terminator precedes it.                             *)
(***************************************************************************)
EXTENDS Integers, Sequences, FiniteSets, TLC

VARIABLES parser, body, result

vars == <<parser, body, result>>

(***************************************************************************)
(* Bounds of the model.                                                    *)
(***************************************************************************)
\* longest run of freely chosen tokens in an input
MaxTokens == 2
\* most parameters of an arrow function / most interpolations of a template
MaxItems == 2

(***************************************************************************)
(* Tokens (lexicon::Token).  kind carries the payload that is an enum      *)
(* (DeclarationKind, OperatorKind, TemplateKind, the Value variant), v the *)
(* payload that is a source slice.                                         *)
(***************************************************************************)
Tok(k, kind, v) == [k |-> k, kind |-> kind, v |-> v, nl |-> FALSE]
T(k) == Tok(k, "", "")
Ident(name) == Tok("Identifier", "", name)
Num(v) == Tok("Literal", "Number", v)
Op(o) == Tok("Operator", o, "")
Decl(kind) == Tok("Declaration", kind, "")
Tpl(kind, slice) == Tok("Template", kind, slice)
\* the regular expression body and flags that follow a `/` in the source
RegExTail(v) == Tok("RegExTail", "", v)
\* the same token at the start of a new line
NL(t) == [t EXCEPT !.nl = TRUE]
EOP == T("EndOfProgram")

None == <<>>
Some(x) == <<x>>

(***************************************************************************)
(* The operator table (operator::OperatorKind).                            *)
(***************************************************************************)
AssignOps == {"Assign", "AddAssign", "SubstractAssign", "MultiplyAssign", "DivideAssign",
              "RemainderAssign", "ExponentAssign", "BSLAssign", "BSRAssign", "UBSRAssign",
              "BitAndAssign", "BitXorAssign", "BitOrAssign"}

BinaryOps == AssignOps \cup
             {"LogicalOr", "LogicalAnd", "BitwiseOr", "BitwiseXor", "BitwiseAnd",
              "Equality", "Inequality", "StrictEquality", "StrictInequality",
              "Lesser", "LesserEquals", "Greater", "GreaterEquals", "InstanceOf", "In",
              "BitShiftLeft", "BitShiftRight", "UBitShiftRight",
              "Addition", "Substraction", "Multiplication", "Division", "Remainder",
              "Exponent"}

PrefixOps == {"LogicalNot", "BitwiseNot", "Addition", "Substraction", "Increment",
              "Decrement", "Typeof", "Void", "Delete", "New"}

AllOps == BinaryOps \cup PrefixOps \cup {"Conditional", "FatArrow", "Accessor"}

binding_power(op) ==
    CASE op \in AssignOps \cup {"FatArrow"} -> 3
      [] op = "Conditional" -> 4
      [] op = "LogicalOr" -> 5
      [] op = "LogicalAnd" -> 6
      [] op = "BitwiseOr" -> 7
      [] op = "BitwiseXor" -> 8
      [] op = "BitwiseAnd" -> 9
      [] op \in {"Equality", "Inequality", "StrictEquality", "StrictInequality"} -> 10
      [] op \in {"Lesser", "LesserEquals", "Greater", "GreaterEquals", "InstanceOf", "In"} -> 11
      [] op \in {"BitShiftLeft", "BitShiftRight", "UBitShiftRight"} -> 12
      [] op \in {"Addition", "Substraction"} -> 13
      [] op \in {"Multiplication", "Division", "Remainder"} -> 14
      [] op \in {"Exponent", "LogicalNot", "BitwiseNot", "Typeof", "Void", "Delete", "New"} -> 15
      [] op \in {"Increment", "Decrement"} -> 16
      [] op = "Accessor" -> 19
      [] OTHER -> 0

prefix(op) == op \in PrefixOps
infix(op) == op \in BinaryOps
assignment(op) == op \in AssignOps

\* Token::as_word: the spelling of a token that is a reserved word
WordKinds == {"This", "Function", "Return", "Break", "Class", "Extends", "Static", "If",
              "Else", "While", "Do", "For", "Throw", "Try", "Catch", "Declaration"}

as_word(token) ==
    IF token.k \in WordKinds THEN Some(token.k)
    ELSE IF token.k = "Literal" /\ token.kind \in {"True", "False", "Null", "Undefined"}
         THEN Some(token.kind)
    ELSE IF token.k = "Operator" /\ token.kind \in {"Typeof", "Void", "Delete", "New", "InstanceOf", "In"}
         THEN Some(token.kind)
    ELSE None

(***************************************************************************)
(* AST nodes (grammar::Expression, grammar::Statement, ...).               *)
(***************************************************************************)
EThis == [type |-> "This"]
EVoid == [type |-> "Void"]
EError == [type |-> "Error"]
ELiteral(kind, v) == [type |-> "Literal", kind |-> kind, value |-> v]
EIdentifier(name) == [type |-> "Identifier", name |-> name]
EArray(list) == [type |-> "Array", list |-> list]
EObject(members) == [type |-> "Object", members |-> members]
ESequence(list) == [type |-> "Sequence", list |-> list]
EPrefix(op, operand) == [type |-> "Prefix", operator |-> op, operand |-> operand]
EPostfix(op, operand) == [type |-> "Postfix", operator |-> op, operand |-> operand]
EBinary(op, left, right) ==
    [type |-> "Binary", parenthesized |-> FALSE, operator |-> op, left |-> left, right |-> right]
EConditional(test, consequent, alternate) ==
    [type |-> "Conditional", test |-> test, consequent |-> consequent, alternate |-> alternate]
ECall(callee, arguments) == [type |-> "Call", callee |-> callee, arguments |-> arguments]
EMember(object, property) == [type |-> "Member", object |-> object, property |-> property]
EComputedMember(object, property) ==
    [type |-> "ComputedMember", object |-> object, property |-> property]
EFunction(name, params, fbody) ==
    [type |-> "Function", name |-> name, params |-> params, body |-> fbody]
EArrowFunction(params, fbody) == [type |-> "ArrowFunction", params |-> params, body |-> fbody]
ETemplate(tag, expressions, quasis) ==
    [type |-> "Template", tag |-> tag, expressions |-> expressions, quasis |-> quasis]

Parameter(name, default) == [name |-> name, default |-> default]
VariableDeclarator(name, value) == [name |-> name, value |-> value]

OShorthand(key) == [type |-> "Shorthand", key |-> key]
OValue(key, value) == [type |-> "Value", key |-> key, value |-> value]
OMethod(key, params, fbody) == [type |-> "Method", key |-> key, params |-> params, body |-> fbody]
KeyLiteral(key) == [type |-> "Literal", key |-> key]
KeyNumber(key) == [type |-> "Number", key |-> key]
KeyBinary(key) == [type |-> "Binary", key |-> key]
KeyComputed(e) == [type |-> "Computed", expression |-> e]

SEmpty == [type |-> "Empty"]
SError == [type |-> "StatementError"]
SBlock(b) == [type |-> "Block", body |-> b]
SExpression(e) == [type |-> "Expression", expression |-> e]
SVariableDeclaration(kind, declarators) ==
    [type |-> "VariableDeclaration", kind |-> kind, declarators |-> declarators]
SReturn(value) == [type |-> "Return", value |-> value]
SBreak(label) == [type |-> "Break", label |-> label]
SThrow(value) == [type |-> "Throw", value |-> value]
SFunction(name, params, fbody) ==
    [type |-> "FunctionStatement", name |-> name, params |-> params, body |-> fbody]
SClass(name, extends, members) ==
    [type |-> "ClassStatement", name |-> name, extends |-> extends, body |-> members]
SIf(test, consequent, alternate) ==
    [type |-> "If", test |-> test, consequent |-> consequent, alternate |-> alternate]
SWhile(test, b) == [type |-> "While", test |-> test, body |-> b]
SDo(b, test) == [type |-> "Do", body |-> b, test |-> test]
SFor(init, test, update, b) ==
    [type |-> "For", init |-> init, test |-> test, update |-> update, body |-> b]
SForIn(left, right, b) == [type |-> "ForIn", left |-> left, right |-> right, body |-> b]
SForOf(left, right, b) == [type |-> "ForOf", left |-> left, right |-> right, body |-> b]
SLabeled(label, b) == [type |-> "Labeled", label |-> label, body |-> b]
STry(b, error, handler) == [type |-> "Try", body |-> b, error |-> error, handler |-> handler]

CConstructor(params, fbody) == [type |-> "Constructor", params |-> params, body |-> fbody]
CMethod(is_static, key, params, fbody) ==
    [type |-> "Method", is_static |-> is_static, key |-> key, params |-> params, body |-> fbody]
CProperty(is_static, key, value) ==
    [type |-> "Property", is_static |-> is_static, key |-> key, value |-> value]

\* Expression::parenthesize: only a Binary carries the flag
parenthesize(e) == IF e.type = "Binary" THEN [e EXCEPT !.parenthesized = TRUE] ELSE e

(***************************************************************************)
(* The Parser struct and its cursor.                                       *)
(*   src    the tokens of the source, ending in EndOfProgram               *)
(*   i      index of the first token the parser has not consumed           *)
(*   buf    Parser::token is Some: token i was read from the tokenizer and *)
(*          sits in the one-token lookahead buffer                         *)
(*   errors Parser::errors (arena parser)                                  *)
(*   log    what the productions did, in order (observation only)          *)
(***************************************************************************)
new(impl, src) ==
    [impl |-> impl, src |-> src, i |-> 1, buf |-> (impl = "arena"), errors |-> <<>>, log |-> <<>>]

Ok(v, p) == [ok |-> TRUE, v |-> v, p |-> p]
Err(e, p) == [ok |-> FALSE, err |-> e, p |-> p]

AtEnd(p) == p.i > Len(p.src)
\* the token under the cursor; the arena lexer stays on EndOfProgram
Current(p) == IF AtEnd(p) THEN EOP ELSE p.src[p.i]

\* number of tokens the tokenizer has produced so far
Requested(p) == IF p.buf THEN p.i ELSE p.i - 1

UnexpectedEndOfProgram == [type |-> "UnexpectedEndOfProgram"]
UnexpectedToken(at) == [type |-> "UnexpectedToken", start |-> at, end |-> at]

\* Tokenizer::invalid_token: an error for the tokenizer's current position
invalid_token(p) == UnexpectedToken(Requested(p))

\* Tokenizer::get_token: the next token, an error once the source is used up
get_token(p) ==
    IF AtEnd(p) THEN Err(UnexpectedEndOfProgram, p)
    ELSE Ok(p.src[p.i], p)

\* Tokenizer::asi: a line terminator precedes the token read last
asi(p) == Requested(p) \in 1..Len(p.src) /\ p.src[Requested(p)].nl

\* Parser::consume / Lexer::consume: the arena lexer reads the next token at once
\* and stays on EndOfProgram
consume(p) ==
    IF p.impl = "arena" THEN (IF AtEnd(p) THEN p ELSE [p EXCEPT !.i = @ + 1])
    ELSE [p EXCEPT !.i = @ + 1, !.buf = FALSE]

peek(p) ==
    IF p.buf THEN Ok(Current(p), p)
    ELSE LET r == get_token(p) IN
         IF r.ok THEN Ok(r.v, [p EXCEPT !.buf = TRUE]) ELSE r

next(p) ==
    IF p.buf THEN Ok(Current(p), consume(p))
    ELSE LET r == get_token(p) IN
         IF r.ok THEN Ok(r.v, [p EXCEPT !.i = @ + 1]) ELSE r

unexpected_token(p) == Err(invalid_token(p), p)

\* expect!: the next token must be of kind k
expect(p, k) ==
    LET r == next(p) IN
    IF ~r.ok THEN r
    ELSE IF r.v.k = k THEN Ok(r.v, r.p) ELSE unexpected_token(r.p)

\* expect!(self, Operator(op))
expect_operator(p, op) ==
    LET r == next(p) IN
    IF ~r.ok THEN r
    ELSE IF r.v.k = "Operator" /\ r.v.kind = op THEN Ok(r.v, r.p) ELSE unexpected_token(r.p)

expect_identifier(p) ==
    LET r == next(p) IN
    IF ~r.ok THEN r
    ELSE IF r.v.k = "Identifier" THEN Ok(r.v.v, r.p) ELSE unexpected_token(r.p)

Logged(p, e) == [p EXCEPT !.log = Append(@, e)]

(***************************************************************************)
(* The two re-entry hooks of the tokenizer.  The source is modelled as     *)
(* tokens, so what the hook scans is the next item of src: the rest of a   *)
(* template after `}` is a Template item, the text after `/` a RegExTail.  *)
(***************************************************************************)
read_template_kind(p) ==
    LET q == Logged(p, [ev |-> "hook", name |-> "read_template_kind", buf |-> p.buf, at |-> p.i]) IN
    IF AtEnd(q) \/ Current(q).k # "Template" THEN Err(UnexpectedEndOfProgram, q)
    ELSE Ok(Current(q), [q EXCEPT !.i = @ + 1])

read_regular_expression(p) ==
    LET q == Logged(p, [ev |-> "hook", name |-> "read_regular_expression", buf |-> p.buf, at |-> p.i]) IN
    IF AtEnd(q) \/ Current(q).k # "RegExTail" THEN Err(UnexpectedEndOfProgram, q)
    ELSE Ok(ELiteral("RegEx", Current(q).v), [q EXCEPT !.i = @ + 1])

(***************************************************************************)
(* The productions.  A Rust loop is a recursive operator named after the   *)
(* function with the suffix _loop; its extra arguments are the loop's      *)
(* local variables.                                                        *)
(***************************************************************************)
(***************************************************************************)
(* A production calls another through Call, which dispatches on the name   *)
(* of the production: self_f(..) stands for the Rust call self.f(..).      *)
(***************************************************************************)
RECURSIVE Call(_, _)

self_for_clause_arena(p, k) == Call("for_clause_arena", <<p, k>>)
self_for_clause(p, k) == Call("for_clause", <<p, k>>)
self_consume(p) == Call("consume", <<p>>)
self_peek(p) == Call("peek", <<p>>)
self_next(p) == Call("next", <<p>>)
self_unexpected_token(p) == Call("unexpected_token", <<p>>)
self_expect(p, k) == Call("expect", <<p, k>>)
self_expect_operator(p, op) == Call("expect_operator", <<p, op>>)
self_expect_identifier(p) == Call("expect_identifier", <<p>>)
self_read_template_kind(p) == Call("read_template_kind", <<p>>)
self_read_regular_expression(p) == Call("read_regular_expression", <<p>>)
self_expect_semicolon(p) == Call("expect_semicolon", <<p>>)
self_handle_error(p, err, family) == Call("handle_error", <<p, err, family>>)
self_error(p, family) == Call("error", <<p, family>>)
self_peek_arena(p) == Call("peek_arena", <<p>>)
self_next_arena(p) == Call("next_arena", <<p>>)
self_Asi(p) == Call("Asi", <<p>>)
self_expect_arena(p, k) == Call("expect_arena", <<p, k>>)
self_expect_identifier_arena(p) == Call("expect_identifier_arena", <<p>>)
self_expect_semicolon_arena(p) == Call("expect_semicolon_arena", <<p>>)
self_located(r, start) == Call("located", <<r, start>>)
self_alloc_in_loc(p, item) == Call("alloc_in_loc", <<p, item>>)
self_operand(parent, e) == Call("operand", <<parent, e>>)
self_only_element(list) == Call("only_element", <<list>>)
self_BlockBodyTail(p) == Call("BlockBodyTail", <<p>>)
self_as_word(token) == Call("as_word", <<token>>)
self_binding_power(op) == Call("binding_power", <<op>>)
self_parenthesize(e) == Call("parenthesize", <<e>>)
self_is_constructor(key) == Call("is_constructor", <<key>>)
self_asi(p) == Call("asi", <<p>>)
self_array_expression_loop(p, list) == Call("array_expression_loop", <<p, list>>)
self_array_expression(p) == Call("array_expression", <<p>>)
self_object_member_list_loop(p, list) == Call("object_member_list_loop", <<p, list>>)
self_object_member_list(p) == Call("object_member_list", <<p>>)
self_block_body_tail_loop(p, stmts) == Call("block_body_tail_loop", <<p, stmts>>)
self_block_body_tail(p) == Call("block_body_tail", <<p>>)
self_block_body(p) == Call("block_body", <<p>>)
self_parameter_list_loop(p, list, default_params) == Call("parameter_list_loop", <<p, list, default_params>>)
self_parameter_list(p) == Call("parameter_list", <<p>>)
self_object_member(p, token) == Call("object_member", <<p, token>>)
self_object_expression(p) == Call("object_expression", <<p>>)
self_arrow_parameters_loop(p, list, params) == Call("arrow_parameters_loop", <<p, list, params>>)
self_arrow_parameters(p, given, e) == Call("arrow_parameters", <<p, given, e>>)
self_arrow_function_expression(p, pe) == Call("arrow_function_expression", <<p, pe>>)
self_prefix_expression(p, operator) == Call("prefix_expression", <<p, operator>>)
self_infix_expression(p, left, bp, op) == Call("infix_expression", <<p, left, bp, op>>)
self_function_expression(p) == Call("function_expression", <<p>>)
self_template_expression_loop(p, tag, kind, expressions, quasis) == Call("template_expression_loop", <<p, tag, kind, expressions, quasis>>)
self_template_expression(p, tag, kind) == Call("template_expression", <<p, tag, kind>>)
self_paren_expression(p) == Call("paren_expression", <<p>>)
self_sequence_or_expression(p) == Call("sequence_or_expression", <<p>>)
self_sequence_or_expression_from_token(p, token) == Call("sequence_or_expression_from_token", <<p, token>>)
self_sequence_or_loop(p, list) == Call("sequence_or_loop", <<p, list>>)
self_sequence_or(p, first) == Call("sequence_or", <<p, first>>)
self_expression_list_loop(p, list) == Call("expression_list_loop", <<p, list>>)
self_expression_list(p) == Call("expression_list", <<p>>)
self_expression(p, lbp) == Call("expression", <<p, lbp>>)
self_regular_expression(p) == Call("regular_expression", <<p>>)
self_expression_from_token(p, token, lbp) == Call("expression_from_token", <<p, token, lbp>>)
self_complex_expression(p, left, lbp) == Call("complex_expression", <<p, left, lbp>>)
self_variable_declarators_loop(p, declarators) == Call("variable_declarators_loop", <<p, declarators>>)
self_variable_declarators(p) == Call("variable_declarators", <<p>>)
self_variable_declaration(p, kind) == Call("variable_declaration", <<p, kind>>)
self_variable_declaration_statement(p, kind) == Call("variable_declaration_statement", <<p, kind>>)
self_labeled_or_expression_statement(p, label) == Call("labeled_or_expression_statement", <<p, label>>)
self_expression_statement(p, token) == Call("expression_statement", <<p, token>>)
self_return_statement(p) == Call("return_statement", <<p>>)
self_throw_statement(p) == Call("throw_statement", <<p>>)
self_try_statement(p) == Call("try_statement", <<p>>)
self_break_statement(p) == Call("break_statement", <<p>>)
self_if_statement(p) == Call("if_statement", <<p>>)
self_while_statement(p) == Call("while_statement", <<p>>)
self_for_in_statement_from_parts(p, left, right) == Call("for_in_statement_from_parts", <<p, left, right>>)
self_for_in_statement(p, left) == Call("for_in_statement", <<p, left>>)
self_for_of_statement(p, left) == Call("for_of_statement", <<p, left>>)
self_for_statement_init(p) == Call("for_statement_init", <<p>>)
self_for_statement_tail(p, init) == Call("for_statement_tail", <<p, init>>)
self_for_statement(p) == Call("for_statement", <<p>>)
self_function_tail(p, name) == Call("function_tail", <<p, name>>)
self_function_statement(p) == Call("function_statement", <<p>>)
self_class_member(p, key, is_static) == Call("class_member", <<p, key, is_static>>)
self_class_statement_loop(p, name, super_class, members) == Call("class_statement_loop", <<p, name, super_class, members>>)
self_class_tail(p, name) == Call("class_tail", <<p, name>>)
self_class_statement(p) == Call("class_statement", <<p>>)
self_block_statement(p) == Call("block_statement", <<p>>)
self_expect_statement(p) == Call("expect_statement", <<p>>)
self_statement(p, token) == Call("statement", <<p, token>>)
self_expression_arena(p, lbp) == Call("expression_arena", <<p, lbp>>)
self_expression_from_arena(p, token, lbp) == Call("expression_from_arena", <<p, token, lbp>>)
self_sequence_or_expression_arena(p) == Call("sequence_or_expression_arena", <<p>>)
self_sequence_or_expression_from_arena(p, token) == Call("sequence_or_expression_from_arena", <<p, token>>)
self_complex_expression_arena(p, first, lbp) == Call("complex_expression_arena", <<p, first, lbp>>)
self_sequence_or_arena(p, first) == Call("sequence_or_arena", <<p, first>>)
self_object_expression_arena(p) == Call("object_expression_arena", <<p>>)
self_array_expression_arena(p) == Call("array_expression_arena", <<p>>)
self_block_body_tail_arena(p, stmts) == Call("block_body_tail_arena", <<p, stmts>>)
self_block_body_arena(p) == Call("block_body_arena", <<p>>)
self_function_arena(p, name) == Call("function_arena", <<p, name>>)
self_class_arena(p, name) == Call("class_arena", <<p, name>>)
self_block_statement_arena(p) == Call("block_statement_arena", <<p>>)
self_expression_statement_arena(p, token) == Call("expression_statement_arena", <<p, token>>)
self_labeled_or_expression_statement_arena(p, label) == Call("labeled_or_expression_statement_arena", <<p, label>>)
self_function_statement_arena(p) == Call("function_statement_arena", <<p>>)
self_class_statement_arena(p) == Call("class_statement_arena", <<p>>)
self_return_statement_arena(p) == Call("return_statement_arena", <<p>>)
self_variable_declarator_arena(p) == Call("variable_declarator_arena", <<p>>)
self_variable_declarators_arena_loop(p, list) == Call("variable_declarators_arena_loop", <<p, list>>)
self_variable_declarators_arena(p) == Call("variable_declarators_arena", <<p>>)
self_variable_declaration_statement_arena(p, kind) == Call("variable_declaration_statement_arena", <<p, kind>>)
self_break_statement_arena(p) == Call("break_statement_arena", <<p>>)
self_throw_statement_arena(p) == Call("throw_statement_arena", <<p>>)
self_try_statement_arena(p) == Call("try_statement_arena", <<p>>)
self_if_statement_arena(p) == Call("if_statement_arena", <<p>>)
self_while_statement_arena(p) == Call("while_statement_arena", <<p>>)
self_do_statement_arena(p) == Call("do_statement_arena", <<p>>)
self_for_in_statement_from_parts_arena(p, left, right) == Call("for_in_statement_from_parts_arena", <<p, left, right>>)
self_for_in_statement_arena(p, left) == Call("for_in_statement_arena", <<p, left>>)
self_for_of_statement_arena(p, left) == Call("for_of_statement_arena", <<p, left>>)
self_for_statement_init_arena(p) == Call("for_statement_init_arena", <<p>>)
self_for_statement_tail_arena(p, init) == Call("for_statement_tail_arena", <<p, init>>)
self_for_statement_arena(p) == Call("for_statement_arena", <<p>>)
self_expect_statement_arena(p) == Call("expect_statement_arena", <<p>>)
self_statement_arena(p, token) == Call("statement_arena", <<p, token>>)


array_expression_loop(p, list) ==
    LET r == self_next(p) IN
    IF ~r.ok THEN r
    ELSE IF r.v.k = "BracketClose" THEN Ok(EArray(list), r.p)
    ELSE IF r.v.k = "Comma" THEN self_array_expression_loop(r.p, Append(list, EVoid))
    ELSE LET e == self_expression_from_token(r.p, r.v, 0) IN
         IF ~e.ok THEN e
         ELSE LET n == self_next(e.p) IN
              IF ~n.ok THEN n
              ELSE IF n.v.k = "BracketClose" THEN Ok(EArray(Append(list, e.v)), n.p)
              ELSE IF n.v.k = "Comma" THEN self_array_expression_loop(n.p, Append(list, e.v))
              ELSE self_unexpected_token(n.p)

array_expression(p) == self_array_expression_loop(p, <<>>)

object_member_list_loop(p, list) ==
    LET r == self_next(p) IN
    IF ~r.ok THEN r
    ELSE IF r.v.k = "BraceClose" THEN Ok(list, r.p)
    ELSE LET m == self_object_member(r.p, r.v) IN
         IF ~m.ok THEN m
         ELSE LET n == self_next(m.p) IN
              IF ~n.ok THEN n
              ELSE IF n.v.k = "BraceClose" THEN Ok(Append(list, m.v), n.p)
              ELSE IF n.v.k = "Comma" THEN self_object_member_list_loop(n.p, Append(list, m.v))
              ELSE self_unexpected_token(n.p)

object_member_list(p) == self_object_member_list_loop(p, <<>>)

\* a loop that takes the end of the program for the end of the block
block_body_tail_loop_open(p, stmts) ==
    LET r == IF self_peek(p).ok /\ self_peek(p).v.k = "EndOfProgram" THEN self_peek(p) ELSE self_next(p) IN
    IF ~r.ok THEN r
    ELSE IF r.v.k \in {"BraceClose", "EndOfProgram"} THEN Ok(stmts, r.p)
    ELSE LET s == self_statement(r.p, r.v) IN
         IF ~s.ok THEN s ELSE self_block_body_tail_loop(s.p, Append(stmts, s.v))

block_body_tail_loop(p, stmts) ==
    LET r == self_next(p) IN
    IF ~r.ok THEN r
    ELSE IF r.v.k = "BraceClose" THEN Ok(stmts, r.p)
    ELSE LET s == self_statement(r.p, r.v) IN
         IF ~s.ok THEN s ELSE self_block_body_tail_loop(s.p, Append(stmts, s.v))

block_body_tail(p) == self_block_body_tail_loop(p, <<>>)

\* the block body of the parser that is running
BlockBodyTail(p) ==
    IF p.impl = "arena" THEN self_block_body_tail_arena(p, <<>>) ELSE self_block_body_tail(p)

block_body(p) ==
    LET r == self_expect(p, "BraceOpen") IN
    IF ~r.ok THEN r ELSE self_BlockBodyTail(r.p)

\* a loop that takes a parameter without a default wherever it stands
parameter_list_loop_any(p, list, default_params) ==
    LET r == self_next(p) IN
    IF ~r.ok THEN r
    ELSE IF r.v.k = "ParenClose" THEN Ok(list, r.p)
    ELSE IF r.v.k # "Identifier" THEN self_unexpected_token(r.p)
    ELSE LET k == self_peek(r.p) IN
         IF ~k.ok THEN k
         ELSE LET param ==
                    IF k.v.k = "Operator" /\ k.v.kind = "Assign"
                    THEN LET e == self_expression(self_consume(k.p), 0) IN
                         IF ~e.ok THEN e ELSE Ok(Parameter(r.v.v, Some(e.v)), e.p)
                    ELSE Ok(Parameter(r.v.v, None), k.p)
              IN
              IF ~param.ok THEN param
              ELSE LET n == self_next(param.p) IN
                   IF ~n.ok THEN n
                   ELSE IF n.v.k = "ParenClose" THEN Ok(Append(list, param.v), n.p)
                   ELSE IF n.v.k = "Comma"
                        THEN self_parameter_list_loop(n.p, Append(list, param.v),
                                                 default_params \/ param.v.default # None)
                   ELSE self_unexpected_token(n.p)

parameter_list_loop(p, list, default_params) ==
    LET r == self_next(p) IN
    IF ~r.ok THEN r
    ELSE IF r.v.k = "ParenClose" THEN Ok(list, r.p)
    ELSE IF r.v.k # "Identifier" THEN self_unexpected_token(r.p)
    ELSE LET k == self_peek(r.p) IN
         IF ~k.ok THEN k
         ELSE LET param ==
                    IF k.v.k = "Operator" /\ k.v.kind = "Assign"
                    THEN LET e == self_expression(self_consume(k.p), 0) IN
                         IF ~e.ok THEN e ELSE Ok(Parameter(r.v.v, Some(e.v)), e.p)
                    ELSE IF default_params THEN self_unexpected_token(k.p)
                    ELSE Ok(Parameter(r.v.v, None), k.p)
              IN
              IF ~param.ok THEN param
              ELSE LET n == self_next(param.p) IN
                   IF ~n.ok THEN n
                   ELSE IF n.v.k = "ParenClose" THEN Ok(Append(list, param.v), n.p)
                   ELSE IF n.v.k = "Comma"
                        THEN self_parameter_list_loop(n.p, Append(list, param.v),
                                                 default_params \/ param.v.default # None)
                   ELSE self_unexpected_token(n.p)

parameter_list(p) == self_parameter_list_loop(p, <<>>, FALSE)

object_member(p, token) ==
    LET key ==
          IF token.k = "Identifier"
          THEN LET k == self_peek(p) IN
               IF ~k.ok THEN k
               ELSE IF k.v.k \in {"Colon", "ParenOpen"} THEN Ok(KeyLiteral(token.v), k.p)
               ELSE [ok |-> TRUE, v |-> OShorthand(token.v), p |-> k.p, done |-> TRUE]
          ELSE IF token.k = "BracketOpen"
          THEN LET e == self_expression(p, 0) IN
               IF ~e.ok THEN e
               ELSE LET c == self_expect(e.p, "BracketClose") IN
                    IF ~c.ok THEN c ELSE Ok(KeyComputed(e.v), c.p)
          ELSE IF token.k = "Literal" /\ token.kind \in {"String", "Number"}
          THEN Ok(KeyLiteral(token.v), p)
          ELSE IF token.k = "Literal" /\ token.kind = "Binary" THEN Ok(KeyBinary(token.v), p)
          ELSE IF self_as_word(token) # None THEN Ok(KeyLiteral(self_as_word(token)[1]), p)
          ELSE self_unexpected_token(p)
    IN
    IF ~key.ok THEN key
    ELSE IF "done" \in DOMAIN key THEN Ok(key.v, key.p)
    ELSE LET n == self_next(key.p) IN
         IF ~n.ok THEN n
         ELSE IF n.v.k = "Colon"
              THEN LET e == self_expression(n.p, 0) IN
                   IF ~e.ok THEN e ELSE Ok(OValue(key.v, e.v), e.p)
         ELSE IF n.v.k = "ParenOpen"
              THEN LET ps == self_parameter_list(n.p) IN
                   IF ~ps.ok THEN ps
                   ELSE LET b == self_block_body(ps.p) IN
                        IF ~b.ok THEN b ELSE Ok(OMethod(key.v, ps.v, b.v), b.p)
         ELSE self_unexpected_token(n.p)

object_expression(p) ==
    LET r == self_object_member_list(p) IN
    IF ~r.ok THEN r ELSE Ok(EObject(r.v), r.p)

\* parameters read off a list in which a default counts only in parentheses
arrow_parameters_loop_strict(p, list, params) ==
    IF list = <<>> THEN Ok(params, p)
    ELSE LET e == Head(list) IN
         IF e.type = "Binary" /\ e.parenthesized /\ e.operator = "Assign"
         THEN IF e.left.type = "Identifier"
              THEN self_arrow_parameters_loop(p, Tail(list),
                                         Append(params, Parameter(e.left.name, Some(e.right))))
              ELSE self_unexpected_token(p)
         ELSE IF e.type = "Identifier"
         THEN self_arrow_parameters_loop(p, Tail(list), Append(params, Parameter(e.name, None)))
         ELSE self_unexpected_token(p)

\* parameters read off a list, passing over what is no parameter
arrow_parameters_loop_skipping(p, list, params) ==
    IF list = <<>> THEN Ok(params, p)
    ELSE LET e == Head(list) IN
         IF e.type = "Binary" /\ e.operator = "Assign"
         THEN IF e.left.type = "Identifier"
              THEN self_arrow_parameters_loop(p, Tail(list),
                                         Append(params, Parameter(e.left.name, Some(e.right))))
              ELSE self_arrow_parameters_loop(p, Tail(list), params)
         ELSE IF e.type = "Identifier"
         THEN self_arrow_parameters_loop(p, Tail(list), Append(params, Parameter(e.name, None)))
         ELSE self_arrow_parameters_loop(p, Tail(list), params)

\* the parameters of an arrow function read off the expression left of `=>`
arrow_parameters_loop(p, list, params) ==
    IF list = <<>> THEN Ok(params, p)
    ELSE LET e == Head(list) IN
         IF e.type = "Binary" /\ e.operator = "Assign"
         THEN IF e.left.type = "Identifier"
              THEN self_arrow_parameters_loop(p, Tail(list),
                                         Append(params, Parameter(e.left.name, Some(e.right))))
              ELSE self_unexpected_token(p)
         ELSE IF e.type = "Identifier"
         THEN self_arrow_parameters_loop(p, Tail(list), Append(params, Parameter(e.name, None)))
         ELSE self_unexpected_token(p)

arrow_parameters(p, given, e) ==
    IF ~given THEN Ok(<<>>, p)
    ELSE IF e.type = "Identifier" THEN Ok(<<Parameter(e.name, None)>>, p)
    ELSE IF e.type = "Binary" /\ e.parenthesized /\ e.operator = "Assign"
         THEN IF e.left.type = "Identifier"
              THEN Ok(<<Parameter(e.left.name, Some(e.right))>>, p)
              ELSE self_unexpected_token(p)
    ELSE IF e.type = "Sequence" THEN self_arrow_parameters_loop(p, e.list, <<>>)
    ELSE self_unexpected_token(p)

\* what arrow_function_expression was given and what it built, if anything
ArrowEvent(pe, node) == [ev |-> "arrow", before |-> pe, node |-> node]

\* the ArrowFunction returned, on record
arrow_built(p, pe, node) == Ok(node, Logged(p, ArrowEvent(pe, Some(node))))

\* pe is the Option<Expression> left of `=>`
arrow_function_expression(p, pe) ==
    LET params == self_arrow_parameters(p, pe # None, IF pe = None THEN EVoid ELSE pe[1]) IN
    IF ~params.ok THEN Err(params.err, Logged(params.p, ArrowEvent(pe, None)))
    ELSE LET n == self_next(params.p) IN
         IF ~n.ok THEN n
         ELSE IF n.v.k = "BraceOpen"
              THEN LET b == self_BlockBodyTail(n.p) IN
                   IF ~b.ok THEN b ELSE arrow_built(b.p, pe, EArrowFunction(params.v, SBlock(b.v)))
              ELSE LET e == self_expression_from_token(n.p, n.v, 0) IN
                   IF ~e.ok THEN e
                   ELSE arrow_built(e.p, pe, EArrowFunction(params.v, SExpression(e.v)))

prefix_expression(p, operator) ==
    IF ~prefix(operator) THEN self_unexpected_token(p)
    ELSE LET e == self_expression(p, 15) IN
         IF ~e.ok THEN e ELSE Ok(EPrefix(operator, e.v), e.p)

\* an infix_expression for which the `:` of a conditional is optional
infix_expression_lenient(p, left, bp, op) ==
    IF op = "Conditional"
    THEN LET c == self_expression(p, bp) IN
         IF ~c.ok THEN c
         ELSE LET k == self_peek(c.p) IN
              IF ~k.ok THEN k
              ELSE IF k.v.k # "Colon" THEN Ok(EConditional(left, c.v, EError), k.p)
              ELSE LET a == self_expression(self_consume(k.p), bp) IN
                   IF ~a.ok THEN a ELSE Ok(EConditional(left, c.v, a.v), a.p)
    ELSE IF op \in {"Increment", "Decrement"} THEN Ok(EPostfix(op, left), p)
    ELSE IF op = "Accessor"
    THEN LET n == self_next(p) IN
         IF ~n.ok THEN n
         ELSE IF n.v.k = "Identifier" THEN Ok(EMember(left, n.v.v), n.p)
         ELSE IF self_as_word(n.v) # None THEN Ok(EMember(left, self_as_word(n.v)[1]), n.p)
         ELSE self_unexpected_token(n.p)
    ELSE IF op = "FatArrow" THEN self_arrow_function_expression(p, Some(left))
    ELSE IF ~infix(op) THEN self_unexpected_token(p)
    ELSE LET r == self_expression(p, bp) IN
         IF ~r.ok THEN r ELSE Ok(EBinary(op, left, r.v), r.p)

infix_expression(p, left, bp, op) ==
    IF op \in {"Increment", "Decrement"} THEN Ok(EPostfix(op, left), p)
    ELSE IF op = "Accessor"
    THEN LET n == self_next(p) IN
         IF ~n.ok THEN n
         ELSE IF n.v.k = "Identifier" THEN Ok(EMember(left, n.v.v), n.p)
         ELSE IF self_as_word(n.v) # None THEN Ok(EMember(left, self_as_word(n.v)[1]), n.p)
         ELSE self_unexpected_token(n.p)
    ELSE IF op = "Conditional"
    THEN LET c == self_expression(p, bp) IN
         IF ~c.ok THEN c
         ELSE LET k == self_expect(c.p, "Colon") IN
              IF ~k.ok THEN k
              ELSE LET a == self_expression(k.p, bp) IN
                   IF ~a.ok THEN a ELSE Ok(EConditional(left, c.v, a.v), a.p)
    ELSE IF op = "FatArrow" THEN self_arrow_function_expression(p, Some(left))
    ELSE IF ~infix(op) THEN self_unexpected_token(p)
    ELSE LET r == self_expression(p, bp) IN
         IF ~r.ok THEN r ELSE Ok(EBinary(op, left, r.v), r.p)

function_expression(p) ==
    LET n == self_next(p) IN
    IF ~n.ok THEN n
    ELSE LET name ==
               IF n.v.k = "Identifier"
               THEN LET o == self_expect(n.p, "ParenOpen") IN
                    IF ~o.ok THEN o ELSE Ok(Some(n.v.v), o.p)
               ELSE IF n.v.k = "ParenOpen" THEN Ok(None, n.p)
               ELSE self_unexpected_token(n.p)
         IN
         IF ~name.ok THEN name
         ELSE LET ps == self_parameter_list(name.p) IN
              IF ~ps.ok THEN ps
              ELSE LET b == self_block_body(ps.p) IN
                   IF ~b.ok THEN b ELSE Ok(EFunction(name.v, ps.v, b.v), b.p)

\* the Template node template_expression returned
TemplateEvent(node) == [ev |-> "template", node |-> node]

\* a loop that drops the slice that closes the template
template_expression_loop_short(p, tag, kind, expressions, quasis) ==
    IF kind.kind = "Open"
    THEN LET e == self_sequence_or_expression(p) IN
         IF ~e.ok THEN e
         ELSE LET c == self_expect(e.p, "BraceClose") IN
              IF ~c.ok THEN c
              ELSE LET k == self_read_template_kind(c.p) IN
                   IF ~k.ok THEN k
                   ELSE self_template_expression_loop(k.p, tag, k.v, Append(expressions, e.v),
                                                      Append(quasis, kind.v))
    ELSE Ok(ETemplate(tag, expressions, quasis),
            Logged(p, TemplateEvent(ETemplate(tag, expressions, quasis))))

\* kind is the Template token read last
template_expression_loop(p, tag, kind, expressions, quasis) ==
    IF kind.kind = "Open"
    THEN LET e == self_sequence_or_expression(p) IN
         IF ~e.ok THEN e
         ELSE LET c == self_expect(e.p, "BraceClose") IN
              IF ~c.ok THEN c
              ELSE LET k == self_read_template_kind(c.p) IN
                   IF ~k.ok THEN k
                   ELSE self_template_expression_loop(k.p, tag, k.v, Append(expressions, e.v),
                                                      Append(quasis, kind.v))
    ELSE Ok(ETemplate(tag, expressions, Append(quasis, kind.v)),
            Logged(p, TemplateEvent(ETemplate(tag, expressions, Append(quasis, kind.v)))))

template_expression(p, tag, kind) == self_template_expression_loop(p, tag, kind, <<>>, <<>>)

paren_expression(p) ==
    LET n == self_next(p) IN
    IF ~n.ok THEN n
    ELSE IF n.v.k = "ParenClose"
    THEN LET a == self_expect_operator(n.p, "FatArrow") IN
         IF ~a.ok THEN a ELSE self_arrow_function_expression(a.p, None)
    ELSE LET e == self_expression_from_token(n.p, n.v, 0) IN
         IF ~e.ok THEN e
         ELSE LET s == self_sequence_or(e.p, e.v) IN
              IF ~s.ok THEN s
              ELSE LET c == self_expect(s.p, "ParenClose") IN
                   IF ~c.ok THEN c ELSE Ok(self_parenthesize(s.v), c.p)

sequence_or_expression(p) ==
    LET n == self_next(p) IN
    IF ~n.ok THEN n ELSE self_sequence_or_expression_from_token(n.p, n.v)

sequence_or_expression_from_token(p, token) ==
    LET first == self_expression_from_token(p, token, 0) IN
    IF ~first.ok THEN first ELSE self_sequence_or(first.p, first.v)

\* what sequence_or saw and returned
SequenceEvent(first, lookahead, out) ==
    [ev |-> "sequence_or", first |-> first, lookahead |-> lookahead, out |-> out]

sequence_or_loop(p, list) ==
    LET k == self_peek(p) IN
    IF ~k.ok THEN k
    ELSE IF k.v.k = "Comma"
    THEN LET e == self_expression(self_consume(k.p), 0) IN
         IF ~e.ok THEN e ELSE self_sequence_or_loop(e.p, Append(list, e.v))
    ELSE Ok(ESequence(list), Logged(k.p, SequenceEvent(list[1], "Comma", ESequence(list))))

\* a sequence_or that wraps a lone expression too
sequence_or_wrapping(p, first) ==
    LET k == self_peek(p) IN
    IF ~k.ok THEN k
    ELSE IF k.v.k = "Comma"
    THEN LET e == self_expression(self_consume(k.p), 0) IN
         IF ~e.ok THEN e ELSE self_sequence_or_loop(e.p, <<first, e.v>>)
    ELSE Ok(ESequence(<<first>>), Logged(k.p, SequenceEvent(first, k.v.k, ESequence(<<first>>))))

sequence_or(p, first) ==
    LET k == self_peek(p) IN
    IF ~k.ok THEN k
    ELSE IF k.v.k = "Comma"
    THEN LET e == self_expression(self_consume(k.p), 0) IN
         IF ~e.ok THEN e ELSE self_sequence_or_loop(e.p, <<first, e.v>>)
    ELSE Ok(first, Logged(k.p, SequenceEvent(first, k.v.k, first)))

expression_list_loop(p, list) ==
    LET r == self_next(p) IN
    IF ~r.ok THEN r
    ELSE IF r.v.k = "ParenClose" THEN Ok(list, r.p)
    ELSE LET e == self_expression_from_token(r.p, r.v, 0) IN
         IF ~e.ok THEN e
         ELSE LET n == self_next(e.p) IN
              IF ~n.ok THEN n
              ELSE IF n.v.k = "ParenClose" THEN Ok(Append(list, e.v), n.p)
              ELSE IF n.v.k = "Comma" THEN self_expression_list_loop(n.p, Append(list, e.v))
              ELSE self_unexpected_token(n.p)

expression_list(p) == self_expression_list_loop(p, <<>>)

expression(p, lbp) ==
    LET n == self_next(p) IN
    IF ~n.ok THEN n ELSE self_expression_from_token(n.p, n.v, lbp)

\* a regular_expression that looks at the next token before it re-enters the lexer
regular_expression_peeking(p) ==
    LET k == self_peek(p) IN
    IF ~k.ok THEN k ELSE self_read_regular_expression(k.p)

regular_expression(p) == self_read_regular_expression(p)

expression_from_token(p, token, lbp) ==
    LET left ==
          CASE token.k = "This" -> Ok(EThis, p)
            [] token.k = "Literal" -> Ok(ELiteral(token.kind, token.v), p)
            [] token.k = "Identifier" -> Ok(EIdentifier(token.v), p)
            [] token.k = "Operator" /\ token.kind = "Division" -> self_regular_expression(p)
            [] token.k = "Operator" /\ token.kind # "Division" -> self_prefix_expression(p, token.kind)
            [] token.k = "ParenOpen" -> self_paren_expression(p)
            [] token.k = "BracketOpen" -> self_array_expression(p)
            [] token.k = "BraceOpen" -> self_object_expression(p)
            [] token.k = "Function" -> self_function_expression(p)
            [] token.k = "Template" -> self_template_expression(p, None, token)
            [] OTHER -> self_unexpected_token(p)
    IN
    IF ~left.ok THEN left ELSE self_complex_expression(left.p, left.v, lbp)

\* the comparison the other way round
breaks_reversed(lbp, rbp) == lbp < rbp

\* `if lbp > rbp { break; }`: the operator with binding power rbp is left to
\* the caller that parses at lbp
breaks(lbp, rbp) == lbp > rbp

complex_expression(p, left, lbp) ==
    LET k == self_peek(p) IN
    IF ~k.ok THEN k
    ELSE IF k.v.k = "Operator"
    THEN LET rbp == self_binding_power(k.v.kind) IN
         IF breaks(lbp, rbp) THEN Ok(left, k.p)
         ELSE LET e == self_infix_expression(self_consume(k.p), left, rbp, k.v.kind) IN
              IF ~e.ok THEN e ELSE self_complex_expression(e.p, e.v, lbp)
    ELSE IF k.v.k = "ParenOpen"
    THEN IF lbp > 18 THEN Ok(left, k.p)
         ELSE LET a == self_expression_list(self_consume(k.p)) IN
              IF ~a.ok THEN a ELSE self_complex_expression(a.p, ECall(left, a.v), lbp)
    ELSE IF k.v.k = "BracketOpen"
    THEN IF lbp > 19 THEN Ok(left, k.p)
         ELSE LET e == self_sequence_or_expression(self_consume(k.p)) IN
              IF ~e.ok THEN e
              ELSE LET c == self_expect(e.p, "BracketClose") IN
                   IF ~c.ok THEN c
                   ELSE self_complex_expression(c.p, EComputedMember(left, e.v), lbp)
    ELSE IF k.v.k = "Template"
    THEN IF lbp > 0 THEN Ok(left, k.p)
         ELSE LET t == self_template_expression(self_consume(k.p), Some(left), k.v) IN
              IF ~t.ok THEN t ELSE self_complex_expression(t.p, t.v, lbp)
    ELSE Ok(left, k.p)

(***************************************************************************)
(* The statement layer of the Vec-based parser (core/src/parser.rs).       *)
(***************************************************************************)
\* what a semicolon check saw and did
SemiEvent(impl, token, outcome, before, after) ==
    [ev |-> "semi", impl |-> impl, token |-> token, outcome |-> outcome,
     from |-> before.i, to |-> after.i]

\* the parser after a semicolon check, with what the check saw and did
Checked(token, outcome, before, after) ==
    Logged(after, SemiEvent(before.impl, token, outcome, before, after))

\* a semicolon check that leaves the `;` it has seen in the lookahead
expect_semicolon_keeping(p) ==
    LET k == peek(p) IN
    IF ~k.ok THEN k
    ELSE IF k.v.k = "Semicolon"
         THEN Ok(k.v, Checked(k.v, "ExplicitSemicolon", p, k.p))
    ELSE IF k.v.k \in {"ParenClose", "BraceClose", "EndOfProgram"}
         THEN Ok(k.v, Checked(k.v, "ImplicitSemicolon", p, k.p))
    ELSE IF ~asi(k.p)
         THEN unexpected_token(Checked(k.v, "NoSemicolon", p, k.p))
    ELSE Ok(k.v, Checked(k.v, "ImplicitSemicolon", p, k.p))

\* expect_semicolon! of parser.rs
expect_semicolon(p) ==
    LET k == peek(p) IN
    IF ~k.ok THEN k
    ELSE IF k.v.k = "Semicolon"
         THEN Ok(k.v, Checked(k.v, "ExplicitSemicolon", p, consume(k.p)))
    ELSE IF k.v.k \in {"ParenClose", "BraceClose", "EndOfProgram"}
         THEN Ok(k.v, Checked(k.v, "ImplicitSemicolon", p, k.p))
    ELSE IF ~asi(k.p)
         THEN unexpected_token(Checked(k.v, "NoSemicolon", p, k.p))
    ELSE Ok(k.v, Checked(k.v, "ImplicitSemicolon", p, k.p))

variable_declarators_loop(p, declarators) ==
    LET name == self_expect_identifier(p) IN
    IF ~name.ok THEN name
    ELSE LET k == self_peek(name.p) IN
         IF ~k.ok THEN k
         ELSE LET value ==
                    IF k.v.k = "Operator" /\ k.v.kind = "Assign"
                    THEN LET e == self_expression(self_consume(k.p), 0) IN
                         IF ~e.ok THEN e ELSE Ok(Some(e.v), e.p)
                    ELSE Ok(None, k.p)
              IN
              IF ~value.ok THEN value
              ELSE LET list == Append(declarators, VariableDeclarator(name.v, value.v))
                       c == self_peek(value.p)
                   IN
                   IF ~c.ok THEN c
                   ELSE IF c.v.k = "Comma" THEN self_variable_declarators_loop(self_consume(c.p), list)
                   ELSE Ok(list, c.p)

variable_declarators(p) == self_variable_declarators_loop(p, <<>>)

variable_declaration(p, kind) ==
    LET d == self_variable_declarators(p) IN
    IF ~d.ok THEN d ELSE Ok(SVariableDeclaration(kind, d.v), d.p)

variable_declaration_statement(p, kind) ==
    LET st == self_variable_declaration(p, kind) IN
    IF ~st.ok THEN st
    ELSE LET s == self_expect_semicolon(st.p) IN
         IF ~s.ok THEN s ELSE Ok(st.v, s.p)

labeled_or_expression_statement(p, label) ==
    LET k == self_peek(p) IN
    IF ~k.ok THEN k
    ELSE IF k.v.k = "Colon"
    THEN LET b == self_expect_statement(self_consume(k.p)) IN
         IF ~b.ok THEN b ELSE Ok(SLabeled(label, b.v), b.p)
    ELSE LET first == self_complex_expression(k.p, EIdentifier(label), 0) IN
         IF ~first.ok THEN first
         ELSE LET e == self_sequence_or(first.p, first.v)
                  s == self_expect_semicolon(e.p)
              IN
              IF ~s.ok THEN s
              ELSE IF e.ok THEN Ok(SExpression(e.v), s.p) ELSE Err(e.err, s.p)

expression_statement(p, token) ==
    LET e == self_sequence_or_expression_from_token(p, token) IN
    IF ~e.ok THEN e
    ELSE LET s == self_expect_semicolon(e.p) IN
         IF ~s.ok THEN s ELSE Ok(SExpression(e.v), s.p)

\* a return_statement that does not ask the tokenizer for a line terminator
return_statement_greedy(p) ==
    LET k == self_peek(p) IN
    IF ~k.ok THEN k
    ELSE LET value ==
               IF k.v.k \in {"EndOfProgram", "Semicolon"} THEN Ok(None, k.p)
               ELSE LET e == self_sequence_or_expression(k.p) IN
                    IF ~e.ok THEN e ELSE Ok(Some(e.v), e.p)
         IN
         IF ~value.ok THEN value
         ELSE LET s == self_expect_semicolon(value.p) IN
              IF ~s.ok THEN s ELSE Ok(SReturn(value.v), s.p)

return_statement(p) ==
    LET k == self_peek(p) IN
    IF ~k.ok THEN k
    ELSE LET value ==
               IF k.v.k \in {"EndOfProgram", "Semicolon"} THEN Ok(None, k.p)
               ELSE IF self_asi(k.p) THEN Ok(None, k.p)
               ELSE LET e == self_sequence_or_expression(k.p) IN
                    IF ~e.ok THEN e ELSE Ok(Some(e.v), e.p)
         IN
         IF ~value.ok THEN value
         ELSE LET s == self_expect_semicolon(value.p) IN
              IF ~s.ok THEN s ELSE Ok(SReturn(value.v), s.p)

throw_statement(p) ==
    LET e == self_sequence_or_expression(p) IN
    IF ~e.ok THEN e
    ELSE LET s == self_expect_semicolon(e.p) IN
         IF ~s.ok THEN s ELSE Ok(SThrow(e.v), s.p)

try_statement(p) ==
    LET b == self_expect_statement(p) IN
    IF ~b.ok THEN b
    ELSE LET c == self_expect(b.p, "Catch") IN
    IF ~c.ok THEN c
    ELSE LET o == self_expect(c.p, "ParenOpen") IN
    IF ~o.ok THEN o
    ELSE LET error == self_expect_identifier(o.p) IN
    IF ~error.ok THEN error
    ELSE LET x == self_expect(error.p, "ParenClose") IN
    IF ~x.ok THEN x
    ELSE LET handler == self_expect_statement(x.p) IN
    IF ~handler.ok THEN handler
    ELSE Ok(STry(b.v, error.v, handler.v), handler.p)

break_statement(p) ==
    LET k == self_peek(p) IN
    IF ~k.ok THEN k
    ELSE LET label ==
               IF k.v.k \in {"EndOfProgram", "Semicolon"} THEN Ok(None, k.p)
               ELSE IF self_asi(k.p) THEN Ok(None, k.p)
               ELSE LET l == self_expect_identifier(k.p) IN
                    IF ~l.ok THEN l ELSE Ok(Some(l.v), l.p)
         IN
         IF ~label.ok THEN label
         ELSE LET s == self_expect_semicolon(label.p) IN
              IF ~s.ok THEN s ELSE Ok(SBreak(label.v), s.p)

if_statement(p) ==
    LET o == self_expect(p, "ParenOpen") IN
    IF ~o.ok THEN o
    ELSE LET test == self_expression(o.p, 0) IN
    IF ~test.ok THEN test
    ELSE LET c == self_expect(test.p, "ParenClose") IN
    IF ~c.ok THEN c
    ELSE LET consequent == self_expect_statement(c.p) IN
    IF ~consequent.ok THEN consequent
    ELSE LET k == self_peek(consequent.p) IN
    IF ~k.ok THEN k
    ELSE IF k.v.k = "Else"
         THEN LET alternate == self_expect_statement(self_consume(k.p)) IN
              IF ~alternate.ok THEN alternate
              ELSE Ok(SIf(test.v, consequent.v, Some(alternate.v)), alternate.p)
         ELSE Ok(SIf(test.v, consequent.v, None), k.p)

while_statement(p) ==
    LET o == self_expect(p, "ParenOpen") IN
    IF ~o.ok THEN o
    ELSE LET test == self_expression(o.p, 0) IN
    IF ~test.ok THEN test
    ELSE LET c == self_expect(test.p, "ParenClose") IN
    IF ~c.ok THEN c
    ELSE LET b == self_expect_statement(c.p) IN
    IF ~b.ok THEN b ELSE Ok(SWhile(test.v, b.v), b.p)

for_in_statement_from_parts(p, left, right) ==
    LET c == self_expect(p, "ParenClose") IN
    IF ~c.ok THEN c
    ELSE LET b == self_expect_statement(c.p) IN
         IF ~b.ok THEN b ELSE Ok(SForIn(left, right, b.v), b.p)

for_in_statement(p, left) ==
    LET right == self_sequence_or_expression(p) IN
    IF ~right.ok THEN right
    ELSE LET c == self_expect(right.p, "ParenClose") IN
    IF ~c.ok THEN c
    ELSE LET b == self_expect_statement(c.p) IN
         IF ~b.ok THEN b ELSE Ok(SForIn(left, right.v, b.v), b.p)

for_of_statement(p, left) ==
    LET right == self_sequence_or_expression(p) IN
    IF ~right.ok THEN right
    ELSE LET c == self_expect(right.p, "ParenClose") IN
    IF ~c.ok THEN c
    ELSE LET b == self_expect_statement(c.p) IN
         IF ~b.ok THEN b ELSE Ok(SForOf(left, right.v, b.v), b.p)

\* the init segment of a `for` head: Ok carries the Option<Box<Statement>>,
\* or, with whole set, the finished ForIn statement the head returned early
for_statement_init(p) ==
    LET n == self_next(p) IN
    IF ~n.ok THEN n
    ELSE IF n.v.k = "Semicolon" THEN Ok(None, n.p)
    ELSE IF n.v.k = "Declaration"
    THEN LET d == self_variable_declarators(n.p) IN
         IF ~d.ok THEN d
         ELSE LET value == d.v[1].value IN
              IF Len(d.v) = 1 /\ value # None /\ value[1].type = "Binary"
                              /\ value[1].operator = "In"
              THEN LET declarators == <<[d.v[1] EXCEPT !.value = Some(value[1].left)]>>
                       f == self_for_in_statement_from_parts(
                                d.p, SVariableDeclaration(n.v.kind, declarators), value[1].right)
                   IN IF ~f.ok THEN f ELSE [ok |-> TRUE, v |-> f.v, p |-> f.p, whole |-> TRUE]
              ELSE Ok(Some(SVariableDeclaration(n.v.kind, d.v)), d.p)
    ELSE LET e == self_sequence_or_expression_from_token(n.p, n.v) IN
         IF ~e.ok THEN e
         ELSE IF e.v.type = "Binary" /\ e.v.operator = "In"
              THEN LET f == self_for_in_statement_from_parts(e.p, SExpression(e.v.left), e.v.right)
                   IN IF ~f.ok THEN f ELSE [ok |-> TRUE, v |-> f.v, p |-> f.p, whole |-> TRUE]
              ELSE Ok(Some(SExpression(e.v)), e.p)

\* the rest of a C-style head after the init segment and its `;`
\* the test or the update of a C-style for: nothing before the closing token k,
\* or a sequence expression followed by k
for_clause(p, k) ==
    LET n == self_next(p) IN
    IF ~n.ok THEN n
    ELSE IF n.v.k = k THEN Ok(None, n.p)
    ELSE LET e == self_sequence_or_expression_from_token(n.p, n.v) IN
         IF ~e.ok THEN e
         ELSE LET c == self_expect(e.p, k) IN
              IF ~c.ok THEN c ELSE Ok(Some(e.v), c.p)

for_statement_tail(p, init) ==
    LET test == self_for_clause(p, "Semicolon") IN
    IF ~test.ok THEN test
    ELSE LET update == self_for_clause(test.p, "ParenClose") IN
         IF ~update.ok THEN update
         ELSE LET b == self_expect_statement(update.p) IN
              IF ~b.ok THEN b
              ELSE Ok(SFor(init, test.v, update.v, b.v), b.p)

for_statement(p) ==
    LET o == self_expect(p, "ParenOpen") IN
    IF ~o.ok THEN o
    ELSE LET init == self_for_statement_init(o.p) IN
    IF ~init.ok THEN init
    ELSE IF "whole" \in DOMAIN init THEN Ok(init.v, init.p)
    ELSE IF init.v = None THEN self_for_statement_tail(init.p, init.v)
    ELSE LET n == self_next(init.p) IN
         IF ~n.ok THEN n
         ELSE IF n.v.k = "Operator" /\ n.v.kind = "In" THEN self_for_in_statement(n.p, init.v[1])
         ELSE IF n.v.k = "Identifier"
              THEN IF n.v.v # "of" THEN self_unexpected_token(n.p)
                   ELSE self_for_of_statement(n.p, init.v[1])
         ELSE IF n.v.k = "Semicolon" THEN self_for_statement_tail(n.p, init.v)
         ELSE self_unexpected_token(n.p)

\* a function after its name: `(` parameters `)` `{` body `}`
function_tail(p, name) ==
    LET o == self_expect(p, "ParenOpen") IN
    IF ~o.ok THEN o
    ELSE LET ps == self_parameter_list(o.p) IN
    IF ~ps.ok THEN ps
    ELSE LET b == self_block_body(ps.p) IN
         IF ~b.ok THEN b ELSE Ok(SFunction(name, ps.v, b.v), b.p)

function_statement(p) ==
    LET name == self_expect_identifier(p) IN
    IF ~name.ok THEN name ELSE self_function_tail(name.p, name.v)

\* ClassKey::is_constructor
is_constructor(key) == key = KeyLiteral("constructor")

\* a class_member for which a static constructor is a Constructor too
class_member_unqualified(p, key, is_static) ==
    LET n == self_next(p) IN
    IF ~n.ok THEN n
    ELSE IF n.v.k = "ParenOpen"
    THEN LET ps == self_parameter_list(n.p) IN
         IF ~ps.ok THEN ps
         ELSE LET b == self_block_body(ps.p) IN
              IF ~b.ok THEN b
              ELSE IF self_is_constructor(key) THEN Ok(CConstructor(ps.v, b.v), b.p)
              ELSE Ok(CMethod(is_static, key, ps.v, b.v), b.p)
    ELSE IF n.v.k = "Operator" /\ n.v.kind = "Assign"
    THEN LET e == self_expression(n.p, 0) IN
         IF ~e.ok THEN e ELSE Ok(CProperty(is_static, key, e.v), e.p)
    ELSE self_unexpected_token(n.p)

class_member(p, key, is_static) ==
    LET n == self_next(p) IN
    IF ~n.ok THEN n
    ELSE IF n.v.k = "ParenOpen"
    THEN LET ps == self_parameter_list(n.p) IN
         IF ~ps.ok THEN ps
         ELSE LET b == self_block_body(ps.p) IN
              IF ~b.ok THEN b
              ELSE IF ~is_static /\ self_is_constructor(key) THEN Ok(CConstructor(ps.v, b.v), b.p)
              ELSE Ok(CMethod(is_static, key, ps.v, b.v), b.p)
    ELSE IF n.v.k = "Operator" /\ n.v.kind = "Assign"
    THEN LET e == self_expression(n.p, 0) IN
         IF ~e.ok THEN e ELSE Ok(CProperty(is_static, key, e.v), e.p)
    ELSE self_unexpected_token(n.p)

class_statement_loop(p, name, super_class, members) ==
    LET first == self_next(p) IN
    IF ~first.ok THEN first
    ELSE LET is_static == first.v.k = "Static"
             n == IF is_static THEN self_next(first.p) ELSE first
         IN
         IF ~n.ok THEN n
         ELSE IF n.v.k = "Semicolon" THEN self_class_statement_loop(n.p, name, super_class, members)
         ELSE IF n.v.k = "BraceClose" THEN Ok(SClass(name, super_class, members), n.p)
         ELSE LET key ==
                    IF n.v.k = "Literal" /\ n.v.kind = "Number" THEN Ok(KeyNumber(n.v.v), n.p)
                    ELSE IF n.v.k = "Literal" /\ n.v.kind = "Binary" THEN Ok(KeyBinary(n.v.v), n.p)
                    ELSE IF n.v.k = "Identifier" THEN Ok(KeyLiteral(n.v.v), n.p)
                    ELSE IF n.v.k = "BracketOpen"
                    THEN LET e == self_sequence_or_expression(n.p) IN
                         IF ~e.ok THEN e
                         ELSE LET c == self_expect(e.p, "BracketClose") IN
                              IF ~c.ok THEN c ELSE Ok(KeyComputed(e.v), c.p)
                    ELSE IF self_as_word(n.v) # None THEN Ok(KeyLiteral(self_as_word(n.v)[1]), n.p)
                    ELSE self_unexpected_token(n.p)
              IN
              IF ~key.ok THEN key
              ELSE LET m == self_class_member(key.p, key.v, is_static) IN
                   IF ~m.ok THEN m
                   ELSE self_class_statement_loop(m.p, name, super_class, Append(members, m.v))

\* a class after its name: the optional `extends`, `{` and the members
class_tail(p, name) ==
    LET n == self_next(p) IN
    IF ~n.ok THEN n
    ELSE IF n.v.k = "Extends"
    THEN LET super == self_expect_identifier(n.p) IN
         IF ~super.ok THEN super
         ELSE LET o == self_expect(super.p, "BraceOpen") IN
              IF ~o.ok THEN o ELSE self_class_statement_loop(o.p, name, Some(super.v), <<>>)
    ELSE IF n.v.k = "BraceOpen" THEN self_class_statement_loop(n.p, name, None, <<>>)
    ELSE self_unexpected_token(n.p)

class_statement(p) ==
    LET name == self_expect_identifier(p) IN
    IF ~name.ok THEN name ELSE self_class_tail(name.p, name.v)

block_statement(p) ==
    LET b == self_block_body_tail(p) IN
    IF ~b.ok THEN b ELSE Ok(SBlock(b.v), b.p)

expect_statement(p) ==
    LET n == self_next(p) IN
    IF ~n.ok THEN n ELSE self_statement(n.p, n.v)

statement(p, token) ==
    CASE token.k = "Semicolon" -> Ok(SEmpty, p)
      [] token.k = "BraceOpen" -> self_block_statement(p)
      [] token.k = "Declaration" -> self_variable_declaration_statement(p, token.kind)
      [] token.k = "Return" -> self_return_statement(p)
      [] token.k = "Break" -> self_break_statement(p)
      [] token.k = "Function" -> self_function_statement(p)
      [] token.k = "Class" -> self_class_statement(p)
      [] token.k = "If" -> self_if_statement(p)
      [] token.k = "While" -> self_while_statement(p)
      [] token.k = "For" -> self_for_statement(p)
      [] token.k = "Identifier" -> self_labeled_or_expression_statement(p, token.v)
      [] token.k = "Throw" -> self_throw_statement(p)
      [] token.k = "Try" -> self_try_statement(p)
      [] OTHER -> self_expression_statement(p, token)

(***************************************************************************)
(* The arena-based parser: core/src/parser/{statement,macros,error}.rs.    *)
(* Its nodes are located: Loc { start, end, item }.  Its lexer always      *)
(* holds the current token (parser.buf stays TRUE).  The expression layer  *)
(* of this parser is the Pratt parser above run to its first error.        *)
(***************************************************************************)
Loc(start, end, item) == [start |-> start, end |-> end, item |-> item]

ADeclaration(kind, declarators) ==
    [type |-> "Declaration", kind |-> kind, declarators |-> declarators]
Declarator(name, value) == [name |-> name, value |-> value]
Function(name, params, fbody) == [name |-> name, params |-> params, body |-> fbody]
Class(name, extends, members) == [name |-> name, extends |-> extends, body |-> members]
AFunction(function) == [type |-> "Function", function |-> function]
AClass(class) == [type |-> "Class", class |-> class]
CError == [type |-> "ClassMemberError"]

\* ToError::to_error for each type that implements it, and the placeholders
\* of the Handle impls for Function, Class and List
to_error(family) ==
    CASE family = "Statement" -> SError
      [] family = "StatementPtr" -> Loc(0, 0, SError)
      [] family = "Expression" -> EError
      [] family = "ExpressionPtr" -> Loc(0, 0, EError)
      [] family = "Declarator" -> Declarator(Loc(0, 0, EError), None)
      [] family = "DeclaratorPtr" -> Loc(0, 0, Declarator(Loc(0, 0, EError), None))
      [] family = "ObjectMember" -> OShorthand("")
      [] family = "ObjectMemberPtr" -> Loc(0, 0, OShorthand(""))
      [] family = "ClassMemberPtr" -> Loc(0, 0, CError)
      [] family = "Function" -> Function("", <<>>, <<>>)
      [] family = "Class" -> Class("", None, <<>>)
      [] family = "List" -> <<>>

\* Handle::handle_error: push the error, hand back the placeholder
handle_error(p, err, family) ==
    Ok(to_error(family),
       Logged([p EXCEPT !.errors = Append(@, err)],
              [ev |-> "handle_error", family |-> family, err |-> err,
               before |-> Len(p.errors), placeholder |-> to_error(family)]))

\* Parser::error: the error of the current token, handled
error(p, family) == handle_error(p, invalid_token(p), family)

\* Parser::peek, Parser::next of the arena parser
peek_arena(p) == Current(p)
next_arena(p) == Ok(Current(p), consume(p))

\* Lexer::asi
Asi(p) ==
    IF Current(p).k = "Semicolon" THEN "ExplicitSemicolon"
    ELSE IF Current(p).k \in {"BraceClose", "EndOfProgram"} \/ Current(p).nl THEN "ImplicitSemicolon"
    ELSE "NoSemicolon"

\* expect! of macros.rs: Err stands for `return $parser.error()`
expect_arena(p, k) ==
    IF Current(p).k = k THEN Ok(Current(p), consume(p)) ELSE Err(invalid_token(p), p)

expect_identifier_arena(p) ==
    IF Current(p).k = "Identifier" THEN Ok(Current(p).v, consume(p)) ELSE Err(invalid_token(p), p)

\* expect_semicolon! of macros.rs
expect_semicolon_arena(p) ==
    CASE Asi(p) = "ExplicitSemicolon" ->
           Ok(Current(p), Checked(Current(p), "ExplicitSemicolon", p, consume(p)))
      [] Asi(p) = "ImplicitSemicolon" ->
           Ok(Current(p), Checked(Current(p), "ImplicitSemicolon", p, p))
      [] Asi(p) = "NoSemicolon" ->
           Err(invalid_token(p), Checked(Current(p), "NoSemicolon", p, p))

\* an expression production of the arena parser: the located node, or the
\* Error placeholder once the production has failed
located(r, start) ==
    IF r.ok THEN Ok(Loc(start, r.p.i, r.v), r.p)
    ELSE handle_error(r.p, r.err, "ExpressionPtr")

expression_arena(p, lbp) == self_located(self_expression(p, lbp), p.i)
expression_from_arena(p, token, lbp) == self_located(self_expression_from_token(p, token, lbp), p.i - 1)
sequence_or_expression_arena(p) == self_located(self_sequence_or_expression(p), p.i)
sequence_or_expression_from_arena(p, token) ==
    self_located(self_sequence_or_expression_from_token(p, token), p.i - 1)
complex_expression_arena(p, first, lbp) ==
    self_located(self_complex_expression(p, first.item, lbp), first.start)
sequence_or_arena(p, first) == self_located(self_sequence_or(p, first.item), first.start)
object_expression_arena(p) == self_located(self_object_expression(p), p.i - 1)
array_expression_arena(p) == self_located(self_array_expression(p), p.i - 1)

\* Parser::alloc_in_loc: a node located at the token consumed last
alloc_in_loc(p, item) == Loc(p.i - 1, p.i, item)

block_body_tail_arena(p, stmts) ==
    LET n == self_next_arena(p) IN
    IF n.v.k = "BraceClose" THEN Ok(stmts, n.p)
    ELSE IF n.v.k = "EndOfProgram" THEN Ok(stmts, self_error(p, "List").p)
    ELSE LET st == self_statement_arena(n.p, n.v) IN
         self_block_body_tail_arena(st.p, Append(stmts, st.v))

block_body_arena(p) ==
    LET o == self_expect_arena(p, "BraceOpen") IN
    IF ~o.ok THEN self_error(o.p, "List") ELSE self_block_body_tail_arena(o.p, <<>>)

\* Parser::function, Parser::class: what follows the name
function_arena(p, name) ==
    LET f == self_function_tail(p, name) IN
    IF ~f.ok THEN self_handle_error(f.p, f.err, "Function")
    ELSE Ok(Function(name, f.v.params, f.v.body), f.p)

class_arena(p, name) ==
    LET c == self_class_tail(p, name) IN
    IF ~c.ok THEN self_handle_error(c.p, c.err, "Class")
    ELSE Ok(Class(name, c.v.extends, c.v.body), c.p)

block_statement_arena(p) ==
    LET b == self_block_body_tail_arena(p, <<>>) IN
    Ok(Loc(0, 0, SBlock(b.v)), b.p)

expression_statement_arena(p, token) ==
    LET e == self_sequence_or_expression_from_arena(p, token)
        s == self_expect_semicolon_arena(e.p)
    IN
    IF ~s.ok THEN self_error(s.p, "StatementPtr")
    ELSE Ok(Loc(e.v.start, e.v.end, SExpression(e.v)), s.p)

\* a labeled_or_expression_statement that takes every identifier for an operand
labeled_or_expression_statement_arena_unlabeled(p, label) ==
    LET first == self_complex_expression_arena(p, self_alloc_in_loc(p, EIdentifier(label)), 0)
        e == self_sequence_or_arena(first.p, first.v)
        s == self_expect_semicolon_arena(e.p)
    IN
    IF ~s.ok THEN self_error(s.p, "StatementPtr")
    ELSE Ok(Loc(0, 0, SExpression(e.v)), s.p)

labeled_or_expression_statement_arena(p, label) ==
    IF self_peek_arena(p).k = "Colon"
    THEN LET b == self_expect_statement_arena(self_consume(p)) IN
         Ok(Loc(0, 0, SLabeled(label, b.v)), b.p)
    ELSE LET first == self_complex_expression_arena(p, self_alloc_in_loc(p, EIdentifier(label)), 0)
             e == self_sequence_or_arena(first.p, first.v)
             s == self_expect_semicolon_arena(e.p)
         IN
         IF ~s.ok THEN self_error(s.p, "StatementPtr")
         ELSE Ok(Loc(0, 0, SExpression(e.v)), s.p)

\* a function_statement that parses a function without a name as well
function_statement_arena_anonymous(p) ==
    LET name == self_expect_identifier_arena(p) IN
    IF ~name.ok
    THEN LET f == self_function_arena(name.p, Loc(0, 0, "")) IN
         Ok(Loc(0, 0, AFunction(f.v)), f.p)
    ELSE LET f == self_function_arena(name.p, self_alloc_in_loc(name.p, name.v)) IN
         Ok(Loc(0, 0, AFunction(f.v)), f.p)

function_statement_arena(p) ==
    LET name == self_expect_identifier_arena(p) IN
    IF ~name.ok THEN self_error(name.p, "StatementPtr")
    ELSE LET f == self_function_arena(name.p, self_alloc_in_loc(name.p, name.v)) IN
         Ok(Loc(0, 0, AFunction(f.v)), f.p)

class_statement_arena(p) ==
    LET name == self_expect_identifier_arena(p) IN
    IF ~name.ok THEN self_error(name.p, "StatementPtr")
    ELSE LET c == self_class_arena(name.p, self_alloc_in_loc(name.p, name.v)) IN
         Ok(Loc(0, 0, AClass(c.v)), c.p)

return_statement_arena(p) ==
    CASE self_Asi(p) = "NoSemicolon" ->
           LET e == self_sequence_or_expression_arena(p)
               s == self_expect_semicolon_arena(e.p)
           IN
           IF ~s.ok THEN self_error(s.p, "StatementPtr")
           ELSE Ok(Loc(0, 0, SReturn(Some(e.v))), s.p)
      [] self_Asi(p) = "ImplicitSemicolon" -> Ok(Loc(0, 0, SReturn(None)), p)
      [] OTHER -> Ok(Loc(0, 0, SReturn(None)), self_consume(p))

variable_declarator_arena(p) ==
    LET n == self_next_arena(p)
        name == CASE n.v.k = "BraceOpen" -> self_object_expression_arena(n.p)
                  [] n.v.k = "BracketOpen" -> self_array_expression_arena(n.p)
                  [] n.v.k = "Identifier" -> Ok(self_alloc_in_loc(n.p, EIdentifier(n.v.v)), n.p)
                  [] OTHER -> Err(invalid_token(n.p), n.p)
    IN
    IF ~name.ok THEN self_error(name.p, "DeclaratorPtr")
    ELSE IF self_peek_arena(name.p).k = "Operator" /\ self_peek_arena(name.p).kind = "Assign"
         THEN LET e == self_expression_arena(self_consume(name.p), 0) IN
              Ok(Loc(0, 0, Declarator(name.v, Some(e.v))), e.p)
         ELSE Ok(Loc(0, 0, Declarator(name.v, None)), name.p)

\* a loop that keeps the declarators newest first
variable_declarators_arena_loop_reversed(p, list) ==
    LET d == self_variable_declarator_arena(p) IN
    IF self_peek_arena(d.p).k = "Comma"
    THEN self_variable_declarators_arena_loop(self_consume(d.p), <<d.v>> \o list)
    ELSE Ok(<<d.v>> \o list, d.p)

variable_declarators_arena_loop(p, list) ==
    LET d == self_variable_declarator_arena(p) IN
    IF self_peek_arena(d.p).k = "Comma"
    THEN self_variable_declarators_arena_loop(self_consume(d.p), Append(list, d.v))
    ELSE Ok(Append(list, d.v), d.p)

variable_declarators_arena(p) == self_variable_declarators_arena_loop(p, <<>>)

variable_declaration_statement_arena(p, kind) ==
    LET d == self_variable_declarators_arena(p)
        s == self_expect_semicolon_arena(d.p)
    IN
    IF ~s.ok THEN self_error(s.p, "StatementPtr")
    ELSE Ok(Loc(0, 0, ADeclaration(kind, d.v)), s.p)

break_statement_arena(p) ==
    CASE self_Asi(p) = "ExplicitSemicolon" -> Ok(Loc(0, 0, SBreak(None)), self_consume(p))
      [] self_Asi(p) = "ImplicitSemicolon" -> Ok(Loc(0, 0, SBreak(None)), p)
      [] OTHER ->
           LET label == self_expect_identifier_arena(p) IN
           IF ~label.ok THEN self_error(label.p, "StatementPtr")
           ELSE LET s == self_expect_semicolon_arena(label.p) IN
                IF ~s.ok THEN self_error(s.p, "StatementPtr")
                ELSE Ok(Loc(0, 0, SBreak(Some(self_alloc_in_loc(label.p, EIdentifier(label.v))))), s.p)

throw_statement_arena(p) ==
    LET value == self_sequence_or_expression_arena(p)
        s == self_expect_semicolon_arena(value.p)
    IN
    IF ~s.ok THEN self_error(s.p, "StatementPtr")
    ELSE Ok(Loc(0, 0, SThrow(value.v)), s.p)

try_statement_arena(p) ==
    LET b == self_block_body_arena(p)
        c == self_expect_arena(b.p, "Catch")
    IN
    IF ~c.ok THEN self_error(c.p, "StatementPtr")
    ELSE LET o == self_expect_arena(c.p, "ParenOpen") IN
    IF ~o.ok THEN self_error(o.p, "StatementPtr")
    ELSE LET err == self_expect_identifier_arena(o.p) IN
    IF ~err.ok THEN self_error(err.p, "StatementPtr")
    ELSE LET x == self_expect_arena(err.p, "ParenClose") IN
    IF ~x.ok THEN self_error(x.p, "StatementPtr")
    ELSE LET handler == self_block_body_arena(x.p)
             s == self_expect_semicolon_arena(handler.p)
         IN
         IF ~s.ok THEN self_error(s.p, "StatementPtr")
         ELSE Ok(Loc(0, 0, STry(b.v, self_alloc_in_loc(err.p, EIdentifier(err.v)), handler.v)), s.p)

\* an if_statement that leaves an `else` to the statement that follows
if_statement_arena_dangling(p) ==
    LET o == self_expect_arena(p, "ParenOpen") IN
    IF ~o.ok THEN self_error(o.p, "StatementPtr")
    ELSE LET test == self_expression_arena(o.p, 0)
             c == self_expect_arena(test.p, "ParenClose")
         IN
         IF ~c.ok THEN self_error(c.p, "StatementPtr")
         ELSE LET consequent == self_expect_statement_arena(c.p) IN
              Ok(Loc(0, 0, SIf(test.v, consequent.v, None)), consequent.p)

if_statement_arena(p) ==
    LET o == self_expect_arena(p, "ParenOpen") IN
    IF ~o.ok THEN self_error(o.p, "StatementPtr")
    ELSE LET test == self_expression_arena(o.p, 0)
             c == self_expect_arena(test.p, "ParenClose")
         IN
         IF ~c.ok THEN self_error(c.p, "StatementPtr")
         ELSE LET consequent == self_expect_statement_arena(c.p) IN
              IF self_peek_arena(consequent.p).k = "Else"
              THEN LET alternate == self_expect_statement_arena(self_consume(consequent.p)) IN
                   Ok(Loc(0, 0, SIf(test.v, consequent.v, Some(alternate.v))), alternate.p)
              ELSE Ok(Loc(0, 0, SIf(test.v, consequent.v, None)), consequent.p)

while_statement_arena(p) ==
    LET o == self_expect_arena(p, "ParenOpen") IN
    IF ~o.ok THEN self_error(o.p, "StatementPtr")
    ELSE LET test == self_expression_arena(o.p, 0)
             c == self_expect_arena(test.p, "ParenClose")
         IN
         IF ~c.ok THEN self_error(c.p, "StatementPtr")
         ELSE LET b == self_expect_statement_arena(c.p) IN
              Ok(Loc(0, 0, SWhile(test.v, b.v)), b.p)

do_statement_arena(p) ==
    LET b == self_expect_statement_arena(p)
        w == self_expect_arena(b.p, "While")
    IN
    IF ~w.ok THEN self_error(w.p, "StatementPtr")
    ELSE LET test == self_expression_arena(w.p, 0) IN
         Ok(Loc(0, 0, SDo(b.v, test.v)), test.p)

for_in_statement_from_parts_arena(p, left, right) ==
    LET c == self_expect_arena(p, "ParenClose") IN
    IF ~c.ok THEN self_error(c.p, "StatementPtr")
    ELSE LET b == self_expect_statement_arena(c.p) IN
         Ok(Loc(0, 0, SForIn(left, right, b.v)), b.p)

for_in_statement_arena(p, left) ==
    LET right == self_sequence_or_expression_arena(p)
        c == self_expect_arena(right.p, "ParenClose")
    IN
    IF ~c.ok THEN self_error(c.p, "StatementPtr")
    ELSE LET b == self_expect_statement_arena(c.p) IN
         Ok(Loc(0, 0, SForIn(left, right.v, b.v)), b.p)

for_of_statement_arena(p, left) ==
    LET right == self_sequence_or_expression_arena(p)
        c == self_expect_arena(right.p, "ParenClose")
    IN
    IF ~c.ok THEN self_error(c.p, "StatementPtr")
    ELSE LET b == self_expect_statement_arena(c.p) IN
         Ok(Loc(0, 0, SForOf(left, right.v, b.v)), b.p)

\* List::only_element
only_element(list) == IF Len(list) = 1 THEN Some(list[1]) ELSE None

\* the right operand of a Binary as the arena holds it: a located expression
operand(parent, e) == Loc(parent.start, parent.end, e)

\* the init segment of the arena `for` head; see for_statement_init
for_statement_init_arena(p) ==
    LET n == self_next_arena(p) IN
    IF n.v.k = "Semicolon" THEN Ok(None, n.p)
    ELSE IF n.v.k = "Declaration"
    THEN LET d == self_variable_declarators_arena(n.p)
             only == self_only_element(d.v)
         IN
         IF only # None /\ only[1].item.value # None
                        /\ only[1].item.value[1].item.type = "Binary"
                        /\ only[1].item.value[1].item.operator = "In"
         THEN LET value == only[1].item.value[1]
                  f == self_for_in_statement_from_parts_arena(
                           d.p, Loc(0, 0, ADeclaration(n.v.kind, d.v)),
                           self_operand(value, value.item.right))
              IN [ok |-> TRUE, v |-> f.v, p |-> f.p, whole |-> TRUE]
         ELSE Ok(Some(Loc(0, 0, ADeclaration(n.v.kind, d.v))), d.p)
    ELSE LET e == self_expression_from_arena(n.p, n.v, 0) IN
         IF e.v.item.type = "Binary" /\ e.v.item.operator = "In"
         THEN LET f == self_for_in_statement_from_parts_arena(
                           e.p, Loc(0, 0, SExpression(self_operand(e.v, e.v.item.left))),
                           self_operand(e.v, e.v.item.right))
              IN [ok |-> TRUE, v |-> f.v, p |-> f.p, whole |-> TRUE]
         ELSE Ok(Some(Loc(0, 0, SExpression(e.v))), e.p)

\* the rest of a C-style head after the init segment and its `;`
\* the test or the update of a C-style for of the arena parser
for_clause_arena(p, k) ==
    LET n == self_next_arena(p) IN
    IF n.v.k = k THEN Ok(None, n.p)
    ELSE LET e == self_expression_from_arena(n.p, n.v, 0) IN
         LET c == self_expect_arena(e.p, k) IN
         IF ~c.ok THEN c ELSE Ok(Some(e.v), c.p)

\* a tail that stores the test as the update and the update as the test
for_statement_tail_arena_swapped(p, init) ==
    LET test == self_for_clause_arena(p, "Semicolon") IN
    IF ~test.ok THEN self_error(test.p, "StatementPtr")
    ELSE LET update == self_for_clause_arena(test.p, "ParenClose") IN
         IF ~update.ok THEN self_error(update.p, "StatementPtr")
         ELSE LET b == self_expect_statement_arena(update.p) IN
              Ok(Loc(0, 0, SFor(init, update.v, test.v, b.v)), b.p)

for_statement_tail_arena(p, init) ==
    LET test == self_for_clause_arena(p, "Semicolon") IN
    IF ~test.ok THEN self_error(test.p, "StatementPtr")
    ELSE LET update == self_for_clause_arena(test.p, "ParenClose") IN
         IF ~update.ok THEN self_error(update.p, "StatementPtr")
         ELSE LET b == self_expect_statement_arena(update.p) IN
              Ok(Loc(0, 0, SFor(init, test.v, update.v, b.v)), b.p)

for_statement_arena(p) ==
    LET o == self_expect_arena(p, "ParenOpen") IN
    IF ~o.ok THEN self_error(o.p, "StatementPtr")
    ELSE LET init == self_for_statement_init_arena(o.p) IN
    IF "whole" \in DOMAIN init THEN Ok(init.v, init.p)
    ELSE IF init.v = None THEN self_for_statement_tail_arena(init.p, init.v)
    ELSE LET n == self_next_arena(init.p) IN
         IF n.v.k = "Operator" /\ n.v.kind = "In" THEN self_for_in_statement_arena(n.p, init.v[1])
         ELSE IF n.v.k = "Identifier" /\ n.v.v = "of" THEN self_for_of_statement_arena(n.p, init.v[1])
         ELSE IF n.v.k = "Semicolon" THEN self_for_statement_tail_arena(n.p, init.v)
         ELSE self_error(n.p, "StatementPtr")

expect_statement_arena(p) ==
    LET n == self_next_arena(p) IN self_statement_arena(n.p, n.v)

statement_arena(p, token) ==
    CASE token.k = "Semicolon" -> Ok(self_alloc_in_loc(p, SEmpty), p)
      [] token.k = "Identifier" -> self_labeled_or_expression_statement_arena(p, token.v)
      [] token.k = "BraceOpen" -> self_block_statement_arena(p)
      [] token.k = "Declaration" -> self_variable_declaration_statement_arena(p, token.kind)
      [] token.k = "Return" -> self_return_statement_arena(p)
      [] token.k = "Break" -> self_break_statement_arena(p)
      [] token.k = "Function" -> self_function_statement_arena(p)
      [] token.k = "Class" -> self_class_statement_arena(p)
      [] token.k = "If" -> self_if_statement_arena(p)
      [] token.k = "While" -> self_while_statement_arena(p)
      [] token.k = "Do" -> self_do_statement_arena(p)
      [] token.k = "For" -> self_for_statement_arena(p)
      [] token.k = "Throw" -> self_throw_statement_arena(p)
      [] token.k = "Try" -> self_try_statement_arena(p)
      [] OTHER -> self_expression_statement_arena(p, token)

\* the production named f applied to the arguments a
Call(f, a) ==
    CASE f = "for_clause_arena" -> for_clause_arena(a[1], a[2])
      [] f = "for_clause" -> for_clause(a[1], a[2])
      [] f = "array_expression_loop" -> array_expression_loop(a[1], a[2])
      [] f = "array_expression" -> array_expression(a[1])
      [] f = "object_member_list_loop" -> object_member_list_loop(a[1], a[2])
      [] f = "object_member_list" -> object_member_list(a[1])
      [] f = "block_body_tail_loop" -> block_body_tail_loop(a[1], a[2])
      [] f = "block_body_tail" -> block_body_tail(a[1])
      [] f = "block_body" -> block_body(a[1])
      [] f = "parameter_list_loop" -> parameter_list_loop(a[1], a[2], a[3])
      [] f = "parameter_list" -> parameter_list(a[1])
      [] f = "object_member" -> object_member(a[1], a[2])
      [] f = "object_expression" -> object_expression(a[1])
      [] f = "arrow_parameters_loop" -> arrow_parameters_loop(a[1], a[2], a[3])
      [] f = "arrow_parameters" -> arrow_parameters(a[1], a[2], a[3])
      [] f = "arrow_function_expression" -> arrow_function_expression(a[1], a[2])
      [] f = "prefix_expression" -> prefix_expression(a[1], a[2])
      [] f = "infix_expression" -> infix_expression(a[1], a[2], a[3], a[4])
      [] f = "function_expression" -> function_expression(a[1])
      [] f = "template_expression_loop" -> template_expression_loop(a[1], a[2], a[3], a[4], a[5])
      [] f = "template_expression" -> template_expression(a[1], a[2], a[3])
      [] f = "paren_expression" -> paren_expression(a[1])
      [] f = "sequence_or_expression" -> sequence_or_expression(a[1])
      [] f = "sequence_or_expression_from_token" -> sequence_or_expression_from_token(a[1], a[2])
      [] f = "sequence_or_loop" -> sequence_or_loop(a[1], a[2])
      [] f = "sequence_or" -> sequence_or(a[1], a[2])
      [] f = "expression_list_loop" -> expression_list_loop(a[1], a[2])
      [] f = "expression_list" -> expression_list(a[1])
      [] f = "expression" -> expression(a[1], a[2])
      [] f = "regular_expression" -> regular_expression(a[1])
      [] f = "expression_from_token" -> expression_from_token(a[1], a[2], a[3])
      [] f = "complex_expression" -> complex_expression(a[1], a[2], a[3])
      [] f = "variable_declarators_loop" -> variable_declarators_loop(a[1], a[2])
      [] f = "variable_declarators" -> variable_declarators(a[1])
      [] f = "variable_declaration" -> variable_declaration(a[1], a[2])
      [] f = "variable_declaration_statement" -> variable_declaration_statement(a[1], a[2])
      [] f = "labeled_or_expression_statement" -> labeled_or_expression_statement(a[1], a[2])
      [] f = "expression_statement" -> expression_statement(a[1], a[2])
      [] f = "return_statement" -> return_statement(a[1])
      [] f = "throw_statement" -> throw_statement(a[1])
      [] f = "try_statement" -> try_statement(a[1])
      [] f = "break_statement" -> break_statement(a[1])
      [] f = "if_statement" -> if_statement(a[1])
      [] f = "while_statement" -> while_statement(a[1])
      [] f = "for_in_statement_from_parts" -> for_in_statement_from_parts(a[1], a[2], a[3])
      [] f = "for_in_statement" -> for_in_statement(a[1], a[2])
      [] f = "for_of_statement" -> for_of_statement(a[1], a[2])
      [] f = "for_statement_init" -> for_statement_init(a[1])
      [] f = "for_statement_tail" -> for_statement_tail(a[1], a[2])
      [] f = "for_statement" -> for_statement(a[1])
      [] f = "function_tail" -> function_tail(a[1], a[2])
      [] f = "function_statement" -> function_statement(a[1])
      [] f = "class_member" -> class_member(a[1], a[2], a[3])
      [] f = "class_statement_loop" -> class_statement_loop(a[1], a[2], a[3], a[4])
      [] f = "class_tail" -> class_tail(a[1], a[2])
      [] f = "class_statement" -> class_statement(a[1])
      [] f = "block_statement" -> block_statement(a[1])
      [] f = "expect_statement" -> expect_statement(a[1])
      [] f = "statement" -> statement(a[1], a[2])
      [] f = "expression_arena" -> expression_arena(a[1], a[2])
      [] f = "expression_from_arena" -> expression_from_arena(a[1], a[2], a[3])
      [] f = "sequence_or_expression_arena" -> sequence_or_expression_arena(a[1])
      [] f = "sequence_or_expression_from_arena" -> sequence_or_expression_from_arena(a[1], a[2])
      [] f = "complex_expression_arena" -> complex_expression_arena(a[1], a[2], a[3])
      [] f = "sequence_or_arena" -> sequence_or_arena(a[1], a[2])
      [] f = "object_expression_arena" -> object_expression_arena(a[1])
      [] f = "array_expression_arena" -> array_expression_arena(a[1])
      [] f = "block_body_tail_arena" -> block_body_tail_arena(a[1], a[2])
      [] f = "block_body_arena" -> block_body_arena(a[1])
      [] f = "function_arena" -> function_arena(a[1], a[2])
      [] f = "class_arena" -> class_arena(a[1], a[2])
      [] f = "block_statement_arena" -> block_statement_arena(a[1])
      [] f = "expression_statement_arena" -> expression_statement_arena(a[1], a[2])
      [] f = "labeled_or_expression_statement_arena" -> labeled_or_expression_statement_arena(a[1], a[2])
      [] f = "function_statement_arena" -> function_statement_arena(a[1])
      [] f = "class_statement_arena" -> class_statement_arena(a[1])
      [] f = "return_statement_arena" -> return_statement_arena(a[1])
      [] f = "variable_declarator_arena" -> variable_declarator_arena(a[1])
      [] f = "variable_declarators_arena_loop" -> variable_declarators_arena_loop(a[1], a[2])
      [] f = "variable_declarators_arena" -> variable_declarators_arena(a[1])
      [] f = "variable_declaration_statement_arena" -> variable_declaration_statement_arena(a[1], a[2])
      [] f = "break_statement_arena" -> break_statement_arena(a[1])
      [] f = "throw_statement_arena" -> throw_statement_arena(a[1])
      [] f = "try_statement_arena" -> try_statement_arena(a[1])
      [] f = "if_statement_arena" -> if_statement_arena(a[1])
      [] f = "while_statement_arena" -> while_statement_arena(a[1])
      [] f = "do_statement_arena" -> do_statement_arena(a[1])
      [] f = "for_in_statement_from_parts_arena" -> for_in_statement_from_parts_arena(a[1], a[2], a[3])
      [] f = "for_in_statement_arena" -> for_in_statement_arena(a[1], a[2])
      [] f = "for_of_statement_arena" -> for_of_statement_arena(a[1], a[2])
      [] f = "for_statement_init_arena" -> for_statement_init_arena(a[1])
      [] f = "for_statement_tail_arena" -> for_statement_tail_arena(a[1], a[2])
      [] f = "for_statement_arena" -> for_statement_arena(a[1])
      [] f = "expect_statement_arena" -> expect_statement_arena(a[1])
      [] f = "statement_arena" -> statement_arena(a[1], a[2])
      [] f = "consume" -> consume(a[1])
      [] f = "peek" -> peek(a[1])
      [] f = "next" -> next(a[1])
      [] f = "unexpected_token" -> unexpected_token(a[1])
      [] f = "expect" -> expect(a[1], a[2])
      [] f = "expect_operator" -> expect_operator(a[1], a[2])
      [] f = "expect_identifier" -> expect_identifier(a[1])
      [] f = "read_template_kind" -> read_template_kind(a[1])
      [] f = "read_regular_expression" -> read_regular_expression(a[1])
      [] f = "expect_semicolon" -> expect_semicolon(a[1])
      [] f = "handle_error" -> handle_error(a[1], a[2], a[3])
      [] f = "error" -> error(a[1], a[2])
      [] f = "peek_arena" -> peek_arena(a[1])
      [] f = "next_arena" -> next_arena(a[1])
      [] f = "Asi" -> Asi(a[1])
      [] f = "expect_arena" -> expect_arena(a[1], a[2])
      [] f = "expect_identifier_arena" -> expect_identifier_arena(a[1])
      [] f = "expect_semicolon_arena" -> expect_semicolon_arena(a[1])
      [] f = "located" -> located(a[1], a[2])
      [] f = "alloc_in_loc" -> alloc_in_loc(a[1], a[2])
      [] f = "operand" -> operand(a[1], a[2])
      [] f = "only_element" -> only_element(a[1])
      [] f = "BlockBodyTail" -> BlockBodyTail(a[1])
      [] f = "as_word" -> as_word(a[1])
      [] f = "binding_power" -> binding_power(a[1])
      [] f = "parenthesize" -> parenthesize(a[1])
      [] f = "is_constructor" -> is_constructor(a[1])
      [] f = "asi" -> asi(a[1])

(***************************************************************************)
(* Inputs.                                                                 *)
(***************************************************************************)
\* all sequences over S of length 0..n
RECURSIVE SeqsUpTo(_, _)
SeqsUpTo(S, n) ==
    IF n = 0 THEN {<<>>}
    ELSE LET shorter == SeqsUpTo(S, n - 1) IN
         shorter \cup {Append(q, x) : q \in {r \in shorter : Len(r) = n - 1}, x \in S}

Alphabet ==
    {Ident("a"), NL(Ident("b")), Num("1"), T("Semicolon"), T("Comma"), T("ParenOpen"),
     T("ParenClose"), T("BraceOpen"), T("BraceClose"), Op("Addition"), Op("Assign"),
     T("Return")}

\* every source of at most MaxTokens tokens of the alphabet
FreeInputs == {q \o <<EOP>> : q \in SeqsUpTo(Alphabet, MaxTokens)}

\* a leaf operand and the expression it parses to
Leaves == {Ident("a"), Ident("c"), Num("1"), Num("2"), Num("3"), T("This")}
Leaf(t) ==
    CASE t.k = "Identifier" -> EIdentifier(t.v)
      [] t.k = "Literal" -> ELiteral(t.kind, t.v)
      [] t.k = "This" -> EThis

\* `x o1 y o2 z`
Infix(x, o1, y, o2, z) == <<x, Op(o1), y, Op(o2), z, EOP>>

\* every pair of infix operators between three fixed leaves, and `1 + 2 * 3`,
\* `1 * 2 + 3`, `1 + 2 - 3` between any leaves
InfixInputs ==
    {Infix(Ident("a"), o1, Num("1"), o2, T("This")) : o1 \in BinaryOps, o2 \in BinaryOps}
    \cup {Infix(x, o[1], y, o[2], z) :
            x \in Leaves, y \in Leaves, z \in Leaves,
            o \in {<<"Addition", "Multiplication">>, <<"Multiplication", "Addition">>,
                   <<"Addition", "Substraction">>}}

\* the tokens a statement can open with, up to the point where it needs its `;`
StatementHeads ==
    {<<Ident("a")>>, <<Num("1")>>, <<T("Return")>>, <<T("Return"), Ident("a")>>,
     <<T("Break")>>, <<T("Break"), Ident("a")>>, <<T("Throw"), Ident("a")>>,
     <<Decl("Let"), Ident("a")>>, <<Decl("Var"), Ident("a"), Op("Assign"), Num("1")>>}

\* the tokens that can follow it, on the same line or at the start of a new one
Followers ==
    LET same == {Ident("b"), Num("2"), T("Semicolon"), T("ParenClose"), T("BraceClose"),
                 T("BracketClose"), T("Colon"), T("Return"), T("This"), T("Function")}
    IN same \cup {NL(t) : t \in same}

\* a statement, the token after it, and at most one more token; the same in a
\* block; `function foo() { return <newline> foo }`; `a; b <newline> c d`
SemicolonInputs ==
    {h \o <<EOP>> : h \in StatementHeads} \cup {h \o <<NL(EOP)>> : h \in StatementHeads}
    \cup {h \o <<f>> \o t \o <<EOP>> : h \in StatementHeads, f \in Followers,
                                      t \in {<<>>, <<Ident("c")>>}}
    \cup {<<T("BraceOpen")>> \o h \o <<f, EOP>> : h \in StatementHeads, f \in Followers}
    \cup {<<T("Function"), Ident("foo"), T("ParenOpen"), T("ParenClose"), T("BraceOpen"),
            T("Return"), NL(Ident("foo")), T("BraceClose"), EOP>>,
          <<Ident("a"), T("Semicolon"), Ident("b"), NL(Ident("c")), Ident("d"), EOP>>}

\* `for ( head ) ;` for the heads of for-in, for-of and C-style loops
ForHeads ==
    {<<Decl("Let"), Ident("x"), Op("Assign"), Ident("y"), Op("In"), Ident("z")>>,
     <<Decl("Let"), Ident("x"), Op("In"), Ident("z")>>,
     <<Decl("Let"), Ident("x"), Ident("of"), Ident("z")>>,
     <<Decl("Let"), Ident("a"), T("Comma"), Ident("b"), Op("In"), Ident("o")>>,
     <<Decl("Let"), Ident("a"), T("Comma"), Ident("b"), Ident("of"), Ident("o")>>,
     <<Decl("Let"), Ident("a"), Op("Assign"), Num("1"), Ident("of"), Ident("xs")>>,
     <<Decl("Let"), Ident("a"), Op("Assign"), Num("1"), T("Comma"), Ident("b"), Op("Assign"),
       Ident("y"), Op("In"), Ident("z")>>,
     <<Ident("x"), Op("In"), Ident("z")>>,
     <<Ident("x"), Ident("of"), Ident("z")>>,
     <<Ident("x"), T("Comma"), Ident("y"), Op("In"), Ident("z")>>,
     <<Ident("x"), T("Comma"), Ident("y"), Ident("of"), Ident("z")>>,
     <<Decl("Let"), Ident("i"), Op("Assign"), Num("0"), T("Semicolon"), Ident("i"), Op("Lesser"),
       Num("10"), T("Semicolon"), Ident("i"), Op("Increment")>>,
     <<T("Semicolon"), T("Semicolon")>>,
     <<Ident("i"), T("Semicolon"), T("Semicolon")>>,
     <<Decl("Let"), Ident("x")>>}

ForInput(head) == <<T("For"), T("ParenOpen")>> \o head \o <<T("ParenClose"), T("Semicolon"), EOP>>
ForInputs == {ForInput(h) : h \in ForHeads}

\* hole n of a template, quasi n of a template
Hole(n) == Ident(<<"e1", "e2", "e3", "e4">>[n])
Quasi(n) == <<"q0", "q1", "q2", "q3", "q4">>[n + 1]

\* the tokens of a template with n interpolations: q0 ${ e1 } q1 ... ${ en } qn
RECURSIVE TemplateTokens(_, _)
TemplateTokens(k, n) ==
    IF k = n THEN <<Tpl("Closed", Quasi(n))>>
    ELSE <<Tpl("Open", Quasi(k)), Hole(k + 1), T("BraceClose")>> \o TemplateTokens(k + 1, n)

\* tagged and untagged templates of 0..MaxItems interpolations, a template in
\* the interpolation of a template, and a template that is cut short
TemplateInputs ==
    {tag \o TemplateTokens(0, n) \o <<EOP>> : tag \in {<<>>, <<Ident("tag")>>}, n \in 0..MaxItems}
    \cup {<<Tpl("Open", "o0")>> \o TemplateTokens(0, n) \o <<T("BraceClose"), Tpl("Closed", "o1"), EOP>> :
            n \in 0..MaxItems}
    \cup {<<Tpl("Open", "q0"), Hole(1), T("BraceClose"), EOP>>,
          <<Tpl("Open", "q0"), Hole(1), T("Comma"), Hole(2), T("BraceClose"), Tpl("Closed", "q1"), EOP>>}

\* `e1, e2, ..., en`
RECURSIVE CommaList(_)
CommaList(n) == IF n = 1 THEN <<Hole(1)>> ELSE CommaList(n - 1) \o <<T("Comma"), Hole(n)>>

\* comma lists of 1..MaxItems+1 expressions: bare, in parentheses, after
\* `return`, with a comma left dangling
SequenceInputs ==
    UNION {{CommaList(n) \o <<EOP>>,
            <<T("ParenOpen")>> \o CommaList(n) \o <<T("ParenClose"), EOP>>,
            <<T("Return")>> \o CommaList(n) \o <<T("Semicolon"), EOP>>,
            CommaList(n) \o <<T("Comma"), EOP>>} : n \in 1..(MaxItems + 1)}

\* parameter n of an arrow function: `pn` or `pn = dn`
ParamName(n) == <<"p1", "p2", "p3", "p4">>[n]
ParamDefault(n) == Num(<<"1", "2", "3", "4">>[n])
ParamTokens(n, kind, wrapped) ==
    LET item == IF kind = "name" THEN <<Ident(ParamName(n))>>
                ELSE <<Ident(ParamName(n)), Op("Assign"), ParamDefault(n)>>
    IN IF wrapped THEN <<T("ParenOpen")>> \o item \o <<T("ParenClose")>> ELSE item

RECURSIVE ParamList(_, _, _)
ParamList(kinds, n, wrapped) ==
    IF n = 0 THEN <<>>
    ELSE IF n = 1 THEN ParamTokens(1, kinds[1], wrapped)
    ELSE ParamList(kinds, n - 1, wrapped) \o <<T("Comma")>> \o ParamTokens(n, kinds[n], wrapped)

\* `(p1, ..., pn) => x`, each parameter in parentheses of its own if wrapped
ArrowInput(kinds, wrapped) ==
    <<T("ParenOpen")>> \o ParamList(kinds, Len(kinds), wrapped)
        \o <<T("ParenClose"), Op("FatArrow"), Ident("x"), EOP>>

ParamKinds == SeqsUpTo({"name", "default"}, MaxItems)
ArrowInputs == {ArrowInput(kinds, wrapped) : kinds \in ParamKinds, wrapped \in BOOLEAN}

\* what can stand left of `=>`: parameters, and expressions that are none
ArrowHeads ==
    {<<Ident("a")>>, <<T("ParenOpen"), Ident("a"), T("ParenClose")>>,
     <<Num("1")>>, <<T("This")>>,
     <<Ident("a"), Op("Accessor"), Ident("b")>>,
     <<Ident("a"), Op("Increment")>>,
     <<Ident("a"), Op("Assign"), Num("1")>>,
     <<T("BracketOpen"), Ident("a"), T("BracketClose")>>,
     <<T("ParenOpen"), Ident("a"), Op("Addition"), Num("1"), T("ParenClose")>>,
     <<T("ParenOpen"), Ident("a"), Op("AddAssign"), Num("1"), T("ParenClose")>>,
     <<T("ParenOpen"), Ident("a"), Op("Accessor"), Ident("b"), Op("Assign"), Num("1"), T("ParenClose")>>,
     <<T("ParenOpen"), Num("1"), Op("Assign"), Num("2"), T("ParenClose")>>,
     <<T("ParenOpen"), Ident("a"), T("Comma"), Num("1"), T("ParenClose")>>,
     <<T("ParenOpen"), Ident("a"), T("Comma"), Ident("b"), Op("Addition"), Num("1"), T("ParenClose")>>,
     <<T("ParenOpen"), Ident("a"), T("Comma"), Ident("b"), Op("AddAssign"), Num("1"), T("ParenClose")>>,
     <<T("ParenOpen"), Ident("a"), T("Comma"), Ident("b"), Op("Accessor"), Ident("c"), Op("Assign"),
       Num("1"), T("ParenClose")>>,
     <<T("ParenOpen"), Ident("a"), Op("Assign"), Num("1"), T("Comma"), Ident("b"), T("ParenClose")>>,
     <<T("ParenOpen"), T("ParenOpen"), Ident("a"), T("Comma"), Ident("b"), T("ParenClose"), T("Comma"),
       Ident("c"), T("ParenClose")>>}

\* `head => x`, and an arrow function that is built before one that is not
ArrowHeadInputs ==
    {h \o <<Op("FatArrow"), Ident("x"), EOP>> : h \in ArrowHeads}
    \cup {h \o <<Op("FatArrow"), T("BraceOpen"), T("BraceClose"), EOP>> : h \in ArrowHeads}
    \cup {<<Ident("a"), Op("FatArrow"), Ident("x"), T("Semicolon"),
            Num("1"), Op("FatArrow"), Ident("x"), EOP>>}

\* `function f(p1, ..., pn) {}` for every choice of names and defaults
FunctionParamKinds == SeqsUpTo({"name", "default"}, MaxItems + 1)
FunctionInput(kinds) ==
    <<T("Function"), Ident("f"), T("ParenOpen")>> \o ParamList(kinds, Len(kinds), FALSE)
        \o <<T("ParenClose"), T("BraceOpen"), T("BraceClose"), EOP>>
FunctionInputs == {FunctionInput(kinds) : kinds \in FunctionParamKinds}

\* `function` and `class` followed by something that is no name
NamelessInputs ==
    {<<T(kw)>> \o rest \o <<EOP>> :
        kw \in {"Function", "Class"},
        rest \in {<<>>,
                  <<T("ParenOpen"), T("ParenClose"), T("BraceOpen"), T("BraceClose")>>,
                  <<T("BraceOpen"), T("BraceClose")>>,
                  <<Num("1"), T("ParenOpen"), T("ParenClose"), T("BraceOpen"), T("BraceClose")>>,
                  <<T("Extends"), Ident("A"), T("BraceOpen"), T("BraceClose")>>,
                  <<T("This"), T("BraceOpen"), T("BraceClose")>>}}
    \cup {<<Ident("a"), T("Semicolon"), T(kw), T("ParenOpen"), T("ParenClose"), T("BraceOpen"),
            T("BraceClose"), EOP>> : kw \in {"Function", "Class"}}
    \cup {<<T("Class"), Ident("A"), T("BraceOpen"), T("BraceClose"), EOP>>}

\* item n of a declaration: a name, `[name]` or `{name}`, with `= n` or without
DeclaratorTokens(n, kind) ==
    LET name == CASE kind[1] = "identifier" -> <<Ident(ParamName(n))>>
                  [] kind[1] = "array" -> <<T("BracketOpen"), Ident(ParamName(n)), T("BracketClose")>>
                  [] kind[1] = "object" -> <<T("BraceOpen"), Ident(ParamName(n)), T("BraceClose")>>
    IN IF kind[2] THEN name \o <<Op("Assign"), ParamDefault(n)>> ELSE name

RECURSIVE DeclaratorList(_, _)
DeclaratorList(kinds, n) ==
    IF n = 1 THEN DeclaratorTokens(1, kinds[1])
    ELSE DeclaratorList(kinds, n - 1) \o <<T("Comma")>> \o DeclaratorTokens(n, kinds[n])

\* lists of up to MaxItems items of any form, and of one more plain item
DeclaratorKinds ==
    (SeqsUpTo({"identifier", "array", "object"} \X BOOLEAN, MaxItems)
        \cup SeqsUpTo({"identifier"} \X BOOLEAN, MaxItems + 1)) \ {<<>>}

\* `var item, ..., item;`
DeclarationInput(kind, kinds) ==
    <<Decl(kind)>> \o DeclaratorList(kinds, Len(kinds)) \o <<T("Semicolon"), EOP>>

\* declarations, and declarations whose first item starts with no name
DeclarationInputs ==
    {DeclarationInput(kind, kinds) : kind \in {"Var", "Let", "Const"}, kinds \in DeclaratorKinds}
    \cup {<<Decl("Var"), t, T("Semicolon"), EOP>> :
            t \in {Num("1"), T("ParenOpen"), T("This"), Op("Assign"), T("Comma"), T("Function")}}
    \cup {<<Decl("Var"), T("Semicolon"), EOP>>, <<Decl("Var"), EOP>>,
          <<Decl("Var"), Ident("a"), T("Comma"), Num("1"), T("Semicolon"), EOP>>}

\* the segments of a C-style head and the bodies it is tried with
ForSegment(which, kind) ==
    CASE kind = "none" -> <<>>
      [] which = "init" /\ kind = "declaration" -> <<Decl("Let"), Ident("i"), Op("Assign"), Num("0")>>
      [] which = "init" /\ kind = "expression" -> <<Ident("i"), Op("Assign"), Num("0")>>
      [] which = "test" -> <<Ident("i"), Op("Lesser"), Num("1")>>
      [] which = "update" -> <<Ident("i"), Op("Increment")>>

ForBody(kind) ==
    CASE kind = "empty" -> <<T("Semicolon")>>
      [] kind = "block" -> <<T("BraceOpen"), T("BraceClose")>>
      [] kind = "expression" -> <<Ident("b"), T("Semicolon")>>

ForSegments ==
    {"none", "declaration", "expression"} \X {"none", "expression"} \X {"none", "expression"}
        \X {"empty", "block", "expression"}

\* `for (init; test; update) body`
CStyleInput(s) ==
    <<T("For"), T("ParenOpen")>> \o ForSegment("init", s[1]) \o <<T("Semicolon")>>
        \o ForSegment("test", s[2]) \o <<T("Semicolon")>> \o ForSegment("update", s[3])
        \o <<T("ParenClose")>> \o ForBody(s[4]) \o <<EOP>>

CStyleInputs == {CStyleInput(s) : s \in ForSegments}

\* `for (i = 0, j = 1; ; ) body`
ForSequenceInput(kind) ==
    <<T("For"), T("ParenOpen"), Ident("i"), Op("Assign"), Num("0"), T("Comma"),
      Ident("j"), Op("Assign"), Num("1"), T("Semicolon"), T("Semicolon"), T("ParenClose")>>
        \o ForBody(kind) \o <<EOP>>

ForSequenceInputs == {ForSequenceInput(kind) : kind \in {"empty", "block", "expression"}}

\* `do body while (a)` and what may follow it
DoTail(kind) ==
    CASE kind = "end" -> <<>>
      [] kind = "semicolon" -> <<T("Semicolon")>>
      [] kind = "token" -> <<Ident("b"), T("Semicolon")>>
      [] kind = "newline" -> <<NL(Ident("b")), T("Semicolon")>>

DoTails == {"end", "semicolon", "token", "newline"}

DoInput(b, kind) ==
    <<T("Do")>> \o ForBody(b) \o <<T("While"), T("ParenOpen"), Ident("a"), T("ParenClose")>>
        \o DoTail(kind) \o <<EOP>>

DoInputs == {DoInput(b, kind) : b \in {"empty", "block", "expression"}, kind \in DoTails}

\* `try {} catch (e) {}` and what may follow it
TryHead ==
    <<T("Try"), T("BraceOpen"), T("BraceClose"), T("Catch"), T("ParenOpen"), Ident("e"),
      T("ParenClose"), T("BraceOpen"), T("BraceClose")>>

TryTail(kind) ==
    IF kind = "call" THEN <<Ident("foo"), T("ParenOpen"), T("ParenClose"), T("Semicolon")>>
    ELSE DoTail(kind)

TryTails == DoTails \cup {"call"}

TryInput(kind) == TryHead \o TryTail(kind) \o <<EOP>>

TryInputs == {TryInput(kind) : kind \in TryTails}

\* `if (t)`
IfHead(t) == <<T("If"), T("ParenOpen"), Ident(t), T("ParenClose")>>

\* the statement `n;`, an empty block for the name "block"
IfBranch(n) == IF n = "block" THEN <<T("BraceOpen"), T("BraceClose")>> ELSE <<Ident(n), T("Semicolon")>>

IfShapes == {"c", "block"} \X {"none", "d", "block"} \X {"end", "e"}

\* `if (a) consequent [else alternate] [e;]`
IfInput(s) ==
    IfHead("a") \o IfBranch(s[1])
        \o (IF s[2] = "none" THEN <<>> ELSE <<T("Else")>> \o IfBranch(s[2]))
        \o (IF s[3] = "end" THEN <<>> ELSE IfBranch("e")) \o <<EOP>>

\* `if (a) if (b) c; [else d;]`
NestedIfInput(els) ==
    IfHead("a") \o IfHead("b") \o IfBranch("c")
        \o (IF els THEN <<T("Else")>> \o IfBranch("d") ELSE <<>>) \o <<EOP>>

IfInputs == {IfInput(s) : s \in IfShapes} \cup {NestedIfInput(els) : els \in BOOLEAN}

\* statements that start with the identifier a
LabelKinds ==
    {"label", "nested", "block", "alone", "binary", "sequence", "both", "token", "newline"}

LabelTokens(kind) ==
    CASE kind = "label" -> <<Ident("a"), T("Colon"), Ident("b"), T("Semicolon")>>
      [] kind = "nested" -> <<Ident("a"), T("Colon"), Ident("b"), T("Colon"), Ident("c"), T("Semicolon")>>
      [] kind = "block" -> <<Ident("a"), T("Colon"), T("BraceOpen"), T("BraceClose")>>
      [] kind = "alone" -> <<Ident("a"), T("Semicolon")>>
      [] kind = "binary" -> <<Ident("a"), Op("Addition"), Ident("b"), T("Semicolon")>>
      [] kind = "sequence" -> <<Ident("a"), T("Comma"), Ident("b"), T("Semicolon")>>
      [] kind = "both" ->
           <<Ident("a"), Op("Addition"), Ident("b"), T("Comma"), Ident("c"), T("Semicolon")>>
      [] kind = "token" -> <<Ident("a"), Ident("b"), T("Semicolon")>>
      [] kind = "newline" -> <<Ident("a"), NL(Ident("b")), T("Semicolon")>>

LabelInput(kind) == LabelTokens(kind) \o <<EOP>>

LabelInputs == {LabelInput(kind) : kind \in LabelKinds}

\* the keys of a class member and what may follow a key
ClassKeyKinds == {"constructor", "m", "number", "computed", "word"}

ClassKeyTokens(k) ==
    CASE k = "constructor" -> <<Ident("constructor")>>
      [] k = "m" -> <<Ident("m")>>
      [] k = "number" -> <<Num("1")>>
      [] k = "computed" -> <<T("BracketOpen"), Ident("a"), T("BracketClose")>>
      [] k = "word" -> <<T("If")>>

ClassAfterKinds == {"method", "property", "semicolon", "close", "token"}

ClassAfterTokens(a) ==
    CASE a = "method" -> <<T("ParenOpen"), T("ParenClose"), T("BraceOpen"), T("BraceClose")>>
      [] a = "property" -> <<Op("Assign"), Num("2")>>
      [] a = "semicolon" -> <<T("Semicolon")>>
      [] a = "close" -> <<>>
      [] a = "token" ->
           <<Ident("b"), T("ParenOpen"), T("ParenClose"), T("BraceOpen"), T("BraceClose")>>

ClassShapes == BOOLEAN \X ClassKeyKinds \X ClassAfterKinds

\* `class A { [static] key after }`
ClassInput(s) ==
    <<T("Class"), Ident("A"), T("BraceOpen")>> \o (IF s[1] THEN <<T("Static")>> ELSE <<>>)
        \o ClassKeyTokens(s[2]) \o ClassAfterTokens(s[3]) \o <<T("BraceClose"), EOP>>

ClassInputs == {ClassInput(s) : s \in ClassShapes}

\* `a ? b` and what may follow the consequent
ConditionalKinds == {"full", "chain", "end", "token", "comma", "close", "inner", "eop"}

ConditionalTail(kind) ==
    CASE kind = "full" -> <<T("Colon"), Ident("c"), T("Semicolon")>>
      [] kind = "chain" ->
           <<T("Colon"), Ident("c"), Op("Conditional"), Ident("d"), T("Colon"), Ident("e"),
             T("Semicolon")>>
      [] kind = "end" -> <<T("Semicolon")>>
      [] kind = "token" -> <<Ident("c"), T("Semicolon")>>
      [] kind = "comma" -> <<T("Comma"), Ident("c"), T("Semicolon")>>
      [] kind = "close" -> <<T("BraceClose")>>
      [] kind = "inner" ->
           <<Op("Conditional"), Ident("c"), T("Colon"), Ident("d"), T("Colon"), Ident("e"),
             T("Semicolon")>>
      [] kind = "eop" -> <<>>

\* the statement starts with the identifier a, or with `(a)` for the other production
ConditionalInput(paren, kind) ==
    (IF paren THEN <<T("ParenOpen"), Ident("a"), T("ParenClose")>> ELSE <<Ident("a")>>)
        \o <<Op("Conditional"), Ident("b")>> \o ConditionalTail(kind) \o <<EOP>>

ConditionalInputs ==
    {ConditionalInput(paren, kind) : paren \in BOOLEAN, kind \in ConditionalKinds}

\* `/re/` in operand position: the operator `/` and what the lexer reads after it
Regex == <<Op("Division"), RegExTail("re")>>

RegexContexts ==
    {"statement", "return", "paren", "array", "binary", "call", "declarator", "sequence",
     "for", "if", "conditional", "template", "object", "arrow", "throw", "member"}

RegexTokens(c) ==
    CASE c = "statement" -> Regex \o <<T("Semicolon")>>
      [] c = "return" -> <<T("Return")>> \o Regex \o <<T("Semicolon")>>
      [] c = "paren" -> <<T("ParenOpen")>> \o Regex \o <<T("ParenClose"), T("Semicolon")>>
      [] c = "array" ->
           <<T("BracketOpen")>> \o Regex \o <<T("Comma")>> \o Regex
               \o <<T("BracketClose"), T("Semicolon")>>
      [] c = "binary" -> <<Ident("a"), Op("Addition")>> \o Regex \o <<T("Semicolon")>>
      [] c = "call" ->
           <<Ident("a"), T("ParenOpen")>> \o Regex \o <<T("ParenClose"), T("Semicolon")>>
      [] c = "declarator" ->
           <<Decl("Var"), Ident("x"), Op("Assign")>> \o Regex \o <<T("Semicolon")>>
      [] c = "sequence" -> <<Ident("a"), T("Comma")>> \o Regex \o <<T("Semicolon")>>
      [] c = "for" ->
           <<T("For"), T("ParenOpen")>> \o Regex \o <<T("Semicolon")>> \o Regex
               \o <<T("Semicolon")>> \o Regex \o <<T("ParenClose"), T("Semicolon")>>
      [] c = "if" ->
           <<T("If"), T("ParenOpen")>> \o Regex \o <<T("ParenClose")>> \o Regex
               \o <<T("Semicolon")>>
      [] c = "conditional" ->
           <<Ident("a"), Op("Conditional")>> \o Regex \o <<T("Colon")>> \o Regex
               \o <<T("Semicolon")>>
      [] c = "template" ->
           <<Tpl("Open", "q0")>> \o Regex \o <<T("BraceClose"), Tpl("Closed", "q1"), T("Semicolon")>>
      [] c = "object" ->
           <<Ident("x"), Op("Assign"), T("BraceOpen"), Ident("a"), T("Colon")>> \o Regex
               \o <<T("BraceClose"), T("Semicolon")>>
      [] c = "arrow" -> <<Ident("a"), Op("FatArrow")>> \o Regex \o <<T("Semicolon")>>
      [] c = "throw" -> <<T("Throw")>> \o Regex \o <<T("Semicolon")>>
      [] c = "member" ->
           <<Ident("a"), T("BracketOpen")>> \o Regex \o <<T("BracketClose"), T("Semicolon")>>

RegexInput(c) == RegexTokens(c) \o <<EOP>>

RegexInputs == {RegexInput(c) : c \in RegexContexts}

\* blocks, lists and expressions that the end of the program cuts short
UnclosedKinds ==
    {"block", "blocks", "array", "element", "object", "arguments", "argument", "parameters",
     "function", "class", "member", "sequence", "declarators", "operator", "paren", "if",
     "computed", "conditional"}

UnclosedTokens(c) ==
    CASE c = "block" -> <<T("BraceOpen"), Ident("a"), T("Semicolon")>>
      [] c = "blocks" -> <<T("BraceOpen"), T("BraceOpen"), T("BraceClose")>>
      [] c = "array" -> <<T("BracketOpen"), Ident("a"), T("Comma")>>
      [] c = "element" -> <<T("BracketOpen"), Ident("a")>>
      [] c = "object" ->
           <<Ident("x"), Op("Assign"), T("BraceOpen"), Ident("a"), T("Colon"), Ident("b"), T("Comma")>>
      [] c = "arguments" -> <<Ident("a"), T("ParenOpen"), Ident("b"), T("Comma")>>
      [] c = "argument" -> <<Ident("a"), T("ParenOpen"), Ident("b")>>
      [] c = "parameters" -> <<T("Function"), Ident("f"), T("ParenOpen"), Ident("a"), T("Comma")>>
      [] c = "function" ->
           <<T("Function"), Ident("f"), T("ParenOpen"), T("ParenClose"), T("BraceOpen"),
             Ident("a"), T("Semicolon")>>
      [] c = "class" -> <<T("Class"), Ident("A"), T("BraceOpen"), T("Semicolon")>>
      [] c = "member" ->
           <<T("Class"), Ident("A"), T("BraceOpen"), Ident("m"), T("ParenOpen"), T("ParenClose"),
             T("BraceOpen"), T("BraceClose")>>
      [] c = "sequence" -> <<Ident("a"), T("Comma"), Ident("b"), T("Comma")>>
      [] c = "declarators" -> <<Decl("Var"), Ident("x"), T("Comma")>>
      [] c = "operator" -> <<Ident("a"), Op("Addition")>>
      [] c = "paren" -> <<T("ParenOpen"), Ident("a")>>
      [] c = "if" -> <<T("If"), T("ParenOpen"), Ident("a"), T("ParenClose"), T("BraceOpen")>>
      [] c = "computed" -> <<Ident("a"), T("BracketOpen"), Ident("b")>>
      [] c = "conditional" -> <<Ident("a"), Op("Conditional"), Ident("b"), T("Colon")>>

UnclosedInput(c) == UnclosedTokens(c) \o <<EOP>>

UnclosedInputs == {UnclosedInput(c) : c \in UnclosedKinds}

\* `a , =`: the sequence fails at the `=` in operand position; what may follow it
SequenceFailKinds == {"end", "semicolon", "token", "newline", "close"}

SequenceFailTail(kind) == IF kind = "close" THEN <<T("BraceClose")>> ELSE DoTail(kind)

SequenceFailInput(kind) ==
    <<Ident("a"), T("Comma"), Op("Assign")>> \o SequenceFailTail(kind) \o <<EOP>>

SequenceFailInputs == {SequenceFailInput(kind) : kind \in SequenceFailKinds}

\* class bodies in which `static` is not followed by a key
StaticKinds == {"semicolon", "close", "member", "twice"}

StaticTokens(kind) ==
    CASE kind = "semicolon" -> <<T("Static"), T("Semicolon")>>
      [] kind = "close" -> <<T("Static")>>
      [] kind = "member" ->
           <<T("Static"), T("Semicolon"), Ident("m"), T("ParenOpen"), T("ParenClose"),
             T("BraceOpen"), T("BraceClose")>>
      [] kind = "twice" ->
           <<T("Static"), T("Semicolon"), T("Static"), Ident("m"), T("ParenOpen"), T("ParenClose"),
             T("BraceOpen"), T("BraceClose")>>

\* `class A { ... }`
StaticInput(kind) ==
    <<T("Class"), Ident("A"), T("BraceOpen")>> \o StaticTokens(kind) \o <<T("BraceClose"), EOP>>

StaticInputs == {StaticInput(kind) : kind \in StaticKinds}

\* expression statements that start with an identifier and with another token
LocatedKinds == {"identifier", "call", "paren", "parencall", "number", "sequence", "this"}

LocatedTokens(kind) ==
    CASE kind = "identifier" -> <<Ident("foo")>>
      [] kind = "call" -> <<Ident("foo"), T("ParenOpen"), T("ParenClose")>>
      [] kind = "paren" -> <<T("ParenOpen"), Ident("foo"), T("ParenClose")>>
      [] kind = "parencall" ->
           <<T("ParenOpen"), Ident("foo"), T("ParenClose"), T("ParenOpen"), T("ParenClose")>>
      [] kind = "number" -> <<Num("1"), Op("Addition"), Ident("foo")>>
      [] kind = "sequence" -> <<Ident("foo"), T("Comma"), Ident("bar")>>
      [] kind = "this" -> <<T("This")>>

LocatedInput(kind) == LocatedTokens(kind) \o <<T("Semicolon"), EOP>>

LocatedInputs == {LocatedInput(kind) : kind \in LocatedKinds}

Inputs ==
    FreeInputs \cup InfixInputs \cup SemicolonInputs \cup ForInputs \cup TemplateInputs
    \cup SequenceInputs \cup ArrowInputs \cup ArrowHeadInputs \cup FunctionInputs \cup NamelessInputs \cup DeclarationInputs \cup CStyleInputs \cup ForSequenceInputs \cup DoInputs \cup TryInputs \cup IfInputs \cup LabelInputs \cup ClassInputs \cup ConditionalInputs \cup RegexInputs \cup UnclosedInputs \cup SequenceFailInputs \cup StaticInputs \cup LocatedInputs

(***************************************************************************)
(* The parse loop and the public parse function.                           *)
(***************************************************************************)
Program(stmts, errors) == [body |-> stmts, errors |-> errors]

\* a mapping that reports every error as the end of the program
ParseError_end(err) == [type |-> "UnexpectedEndOfProgram"]

\* parse of parser.rs maps the parser's Error to the public ParseError
ParseError(err) ==
    IF err.type = "UnexpectedEndOfProgram" THEN [type |-> "UnexpectedEndOfProgram"]
    ELSE [type |-> "UnexpectedToken", start |-> err.start, end |-> err.end]

StatementEvent(before, after, node) ==
    Logged(after, [ev |-> "statement", from |-> before.i, to |-> after.i, node |-> node])

Init ==
    /\ parser \in {new(impl, src) : impl \in {"vec", "arena"}, src \in Inputs}
    /\ body = <<>>
    /\ result = None

\* the statement the loop of Parser::parse parses after the token it has read
Turn(p) == self_statement(next(p).p, next(p).v)

\* body.push(statement): the loop goes on
Push(s) ==
    /\ s.ok
    /\ parser' = StatementEvent(parser, s.p, s.v)
    /\ body' = Append(body, s.v)
    /\ UNCHANGED result

\* statement(token)? fails: Parser::parse returns Err, parse maps it to a ParseError
Fail(s) ==
    /\ ~s.ok
    /\ parser' = s.p
    /\ body' = <<>>
    /\ result' = Some([ok |-> FALSE, error |-> ParseError(s.err)])

\* one turn of the loop of Parser::parse: a statement is parsed and pushed
ParseStatement ==
    /\ parser.impl = "vec"
    /\ result = None
    /\ next(parser).v.k # "EndOfProgram"
    /\ Push(Turn(parser))

\* the loop meets EndOfProgram: parse returns Ok(Program)
ParseEnd ==
    /\ parser.impl = "vec"
    /\ result = None
    /\ next(parser).v.k = "EndOfProgram"
    /\ parser' = next(parser).p
    /\ result' = Some([ok |-> TRUE, program |-> Program(body, <<>>)])
    /\ UNCHANGED body

\* a production fails
ParseFail ==
    /\ parser.impl = "vec"
    /\ result = None
    /\ next(parser).v.k # "EndOfProgram"
    /\ Fail(Turn(parser))

\* the statement the loop of the arena parser parses after the token it has read
TurnArena(p) == self_statement_arena(next_arena(p).p, next_arena(p).v)

\* body.push(statement) of the arena parser, which never fails
PushArena(s) ==
    /\ parser' = StatementEvent(parser, s.p, s.v)
    /\ body' = Append(body, s.v)
    /\ UNCHANGED result

\* one turn of the loop of the arena parser
ParseStatementArena ==
    /\ parser.impl = "arena"
    /\ result = None
    /\ next_arena(parser).v.k # "EndOfProgram"
    /\ PushArena(TurnArena(parser))

\* the arena parser meets EndOfProgram: the program and its errors
ParseEndArena ==
    /\ parser.impl = "arena"
    /\ result = None
    /\ peek_arena(parser).k = "EndOfProgram"
    /\ result' = Some([ok |-> parser.errors = <<>>, program |-> Program(body, parser.errors)])
    /\ UNCHANGED <<parser, body>>

Next == ParseStatement \/ ParseEnd \/ ParseFail \/ ParseStatementArena \/ ParseEndArena

Spec == Init /\ [][Next]_vars

(***************************************************************************)
(* The same machine for the check of termination.  A turn of the loop is   *)
(* Turned, the value Next gives the variables; the turns of every source   *)
(* are worked out beforehand, at most MaxTurns of them, so that the        *)
(* enabling condition of the fairness requirement is a lookup.  The loop   *)
(* of parse is sequential code: it runs on until it returns.               *)
(***************************************************************************)
\* body.push(statement) or the return of the error, as Push and Fail
TurnedVec(p, b, s) ==
    IF s.ok THEN <<StatementEvent(p, s.p, s.v), Append(b, s.v), None>>
    ELSE <<s.p, <<>>, Some([ok |-> FALSE, error |-> ParseError(s.err)])>>

\* one turn of the loop in the state <<p, b, None>>, as the five actions of Next
Turned(p, b) ==
    CASE p.impl = "vec" /\ next(p).v.k = "EndOfProgram" ->
           <<next(p).p, b, Some([ok |-> TRUE, program |-> Program(b, <<>>)])>>
      [] p.impl = "vec" /\ next(p).v.k # "EndOfProgram" -> TurnedVec(p, b, Turn(p))
      [] p.impl = "arena" /\ peek_arena(p).k = "EndOfProgram" ->
           <<p, b, Some([ok |-> p.errors = <<>>, program |-> Program(b, p.errors)])>>
      [] OTHER -> <<StatementEvent(p, TurnArena(p).p, TurnArena(p).v), Append(b, TurnArena(p).v), None>>

\* a source of n tokens is parsed in at most n turns
MaxTurns(p) == Len(p.src)

\* the states parse goes through from the state v, in at most n turns
RECURSIVE Run(_, _)
Run(v, n) ==
    IF v[3] # None \/ n = 0 THEN <<v>> ELSE <<v>> \o Run(Turned(v[1], v[2]), n - 1)

Runs ==
    [p \in {new(impl, src) : impl \in {"vec", "arena"}, src \in Inputs} |->
        Run(<<p, <<>>, None>>, MaxTurns(p))]

\* the run of the source that is being parsed
ThisRun == Runs[new(parser.impl, parser.src)]

\* one turn of the loop of either parser
ParseTurn ==
    /\ result = None
    /\ Len(body) + 2 <= Len(ThisRun)
    /\ <<parser, body, result>> = ThisRun[Len(body) + 1]
    /\ parser' = ThisRun[Len(body) + 2][1]
    /\ body' = ThisRun[Len(body) + 2][2]
    /\ result' = ThisRun[Len(body) + 2][3]

LiveNext == ParseTurn

LiveSpec == Init /\ [][LiveNext]_vars /\ WF_vars(LiveNext)

(***************************************************************************)
(* The error handler on its own: any production of any family may fail     *)
(* with any error, at most MaxErrors times.  body holds what the handler   *)
(* returned last.                                                          *)
(***************************************************************************)
MaxErrors == 2

\* the types Handle is implemented for
Families ==
    {"Statement", "StatementPtr", "Expression", "ExpressionPtr", "Declarator", "DeclaratorPtr",
     "ObjectMember", "ObjectMemberPtr", "ClassMemberPtr", "Function", "Class", "List"}

\* the errors a production can fail with
Errors == {UnexpectedEndOfProgram} \cup {UnexpectedToken(n) : n \in 1..MaxTokens}

HandlerInit ==
    /\ parser = new("arena", <<EOP>>)
    /\ body = <<>>
    /\ result = None

Handled(r) ==
    /\ parser' = r.p
    /\ body' = <<r.v>>
    /\ UNCHANGED result

HandleError ==
    /\ Len(parser.errors) < MaxErrors
    /\ \E family \in Families : \E err \in Errors : Handled(self_handle_error(parser, err, family))

HandlerNext == HandleError

HandlerSpec == HandlerInit /\ [][HandlerNext]_vars

(***************************************************************************)
(* What a state shows of the parse so far.                                 *)
(***************************************************************************)
\* a node without its location
Item(x) == IF "item" \in DOMAIN x THEN x.item ELSE x

\* the events of one kind in the parser's log
Events(ev) == {j \in 1..Len(parser.log) : parser.log[j].ev = ev}

\* parsing has ended and has reported no error
Accepted == result # None /\ result[1].ok
Rejected == result # None /\ ~result[1].ok

\* the source is one expression statement and is parsed as e
ParsedAs(e) ==
    /\ result # None => Accepted /\ body # <<>>
    /\ body # <<>> =>
         /\ Len(body) = 1
         /\ Item(body[1]).type = "Expression"
         /\ Item(Item(body[1]).expression) = e

\* the source is `x o1 y o2 z` for leaves x, y, z and infix operators o1, o2
InfixCase ==
    /\ Len(parser.src) = 6
    /\ \A n \in {1, 3, 5} : parser.src[n] \in Leaves
    /\ \A n \in {2, 4} : parser.src[n].k = "Operator" /\ parser.src[n].kind \in BinaryOps

\* the parse that binds o1 tighter, the parse that binds o2 tighter
LeftNested(src) ==
    EBinary(src[4].kind, EBinary(src[2].kind, Leaf(src[1]), Leaf(src[3])), Leaf(src[5]))
RightNested(src) ==
    EBinary(src[2].kind, Leaf(src[1]), EBinary(src[4].kind, Leaf(src[3]), Leaf(src[5])))

(***************************************************************************)
(* C1  For infix operators op1, op2 with binding_power(op1) <              *)
(* binding_power(op2) and leaves a, b, c, `a op1 b op2 c` parses as        *)
(* Binary(op1, a, Binary(op2, b, c)) and `a op2 b op1 c` as                *)
(* Binary(op1, Binary(op2, a, b), c); `1 + 2 * 3` is one expression        *)
(* statement holding Binary(Addition, 1, Binary(Multiplication, 2, 3)).    *)
(***************************************************************************)
C1_Precedence ==
    InfixCase =>
        /\ binding_power(parser.src[2].kind) < binding_power(parser.src[4].kind)
              => ParsedAs(RightNested(parser.src))
        /\ binding_power(parser.src[4].kind) < binding_power(parser.src[2].kind)
              => ParsedAs(LeftNested(parser.src))

\* `1 + 2 * 3` has been parsed to Binary(Addition, 1, Binary(Multiplication, 2, 3))
C1_Witness ==
    /\ parser.impl = "vec"
    /\ parser.src = Infix(Num("1"), "Addition", Num("2"), "Multiplication", Num("3"))
    /\ Accepted
    /\ body = <<SExpression(EBinary("Addition", ELiteral("Number", "1"),
                                    EBinary("Multiplication", ELiteral("Number", "2"),
                                            ELiteral("Number", "3"))))>>

(***************************************************************************)
(* C2  Infix operators of fixity L are left-associative: for two such      *)
(* operators op1, op2 of equal binding power and leaves a, b, c,           *)
(* `a op1 b op2 c` parses as Binary(op2, Binary(op1, a, b), c).            *)
(***************************************************************************)
\* the operators the operator table of the specification marks L
LeftFixity == BinaryOps \ (AssignOps \cup {"Exponent"})

C2_LeftAssociative ==
    (/\ InfixCase
     /\ parser.src[2].kind \in LeftFixity
     /\ parser.src[4].kind \in LeftFixity
     /\ binding_power(parser.src[2].kind) = binding_power(parser.src[4].kind))
    => ParsedAs(LeftNested(parser.src))

(***************************************************************************)
(* C3  When the token after `return` is preceded by a line terminator,     *)
(* return_statement yields Return(None) and consumes no further token, so  *)
(* that what follows is a statement of its own: `return <newline> foo`     *)
(* yields [Return(None), ExpressionStatement(foo)], never Return(foo).     *)
(***************************************************************************)
\* the statements of the program parsed so far, without their locations
Statements == [n \in 1..Len(body) |-> Item(body[n])]

\* the token at position n of the source; the tokenizer stays at EndOfProgram
TokenAt(n) == IF n > Len(parser.src) THEN EOP ELSE parser.src[n]

\* the statements parsed so far that are a `return` whose next token starts a line
ReturnsBeforeNewline ==
    {j \in Events("statement") :
        /\ TokenAt(parser.log[j].from).k = "Return"
        /\ TokenAt(parser.log[j].from + 1).nl}

\* `function foo() { return <newline> foo }`
ReturnInFunction ==
    <<T("Function"), Ident("foo"), T("ParenOpen"), T("ParenClose"), T("BraceOpen"),
      T("Return"), NL(Ident("foo")), T("BraceClose"), EOP>>

\* the statements of the body of a function statement
FunctionBody(node) ==
    LET list == IF "function" \in DOMAIN node THEN node.function.body ELSE node.body
    IN [n \in 1..Len(list) |-> Item(list[n])]

\* the claim as it stands: whatever the token on the next line is
C3_ReturnBeforeNewline ==
    \A j \in ReturnsBeforeNewline :
        /\ Item(parser.log[j].node) = SReturn(None)
        /\ parser.log[j].to = parser.log[j].from + 1

\* the claim for a token other than `;` on the next line; a `;` there is
\* consumed as the semicolon of the return statement
C3_ReturnBeforeNewlineToken ==
    /\ \A j \in ReturnsBeforeNewline :
          /\ Item(parser.log[j].node) = SReturn(None)
          /\ parser.log[j].to = parser.log[j].from +
                (IF TokenAt(parser.log[j].from + 1).k = "Semicolon" THEN 2 ELSE 1)
    /\ \A j \in Events("statement") : \A n \in Events("statement") :
          (j < n /\ \A m \in Events("statement") : ~(j < m /\ m < n))
             => parser.log[n].from = parser.log[j].to
    /\ parser.src = <<T("Return"), NL(Ident("b")), EOP>> =>
          /\ result # None => Accepted /\ Len(body) = 2
          /\ Len(body) >= 1 => Statements[1] = SReturn(None)
          /\ Len(body) = 2 => /\ Statements[2].type = "Expression"
                              /\ Item(Statements[2].expression) = EIdentifier("b")
    /\ parser.src = ReturnInFunction =>
          /\ result # None => Accepted /\ Len(body) = 1
          /\ body # <<>> =>
                /\ Len(FunctionBody(Statements[1])) = 2
                /\ FunctionBody(Statements[1])[1] = SReturn(None)
                /\ FunctionBody(Statements[1])[2].type = "Expression"
                /\ Item(FunctionBody(Statements[1])[2].expression) = EIdentifier("foo")

\* `return <newline> b` has been parsed to [Return(None), ExpressionStatement(b)]
C3_Witness ==
    /\ parser.impl = "vec"
    /\ parser.src = <<T("Return"), NL(Ident("b")), EOP>>
    /\ Accepted
    /\ body = <<SReturn(None), SExpression(EIdentifier("b"))>>
    /\ ReturnsBeforeNewline # {}

(***************************************************************************)
(* C4  Where a statement needs its semicolon, a missing `;` is accepted    *)
(* only when the lookahead is `}` or EndOfProgram or starts a line; any    *)
(* other lookahead on the same line, `)` included, is rejected as an       *)
(* unexpected token.                                                       *)
(***************************************************************************)
C4_MissingSemicolon ==
    \A j \in Events("semi") :
        parser.log[j].token.k # "Semicolon" =>
            parser.log[j].outcome =
                (IF parser.log[j].token.k \in {"BraceClose", "EndOfProgram"} \/ parser.log[j].token.nl
                 THEN "ImplicitSemicolon" ELSE "NoSemicolon")

(***************************************************************************)
(* C5  The semicolon check has three outcomes: ExplicitSemicolon consumes  *)
(* exactly one token, the `;`; ImplicitSemicolon leaves the current token  *)
(* as the lookahead of the enclosing production; NoSemicolon reports an    *)
(* error and consumes no token.                                            *)
(***************************************************************************)
\* the check logged at j ended in an error: the Vec-based parser returns it
\* from parse, the arena parser records it
ErrorReported(j) ==
    IF parser.impl = "vec"
    THEN j = Len(parser.log) /\ Rejected /\ result[1].error.type = "UnexpectedToken"
    ELSE /\ j < Len(parser.log)
         /\ parser.log[j + 1].ev = "handle_error"
         /\ parser.log[j + 1].err.type = "UnexpectedToken"
         /\ Len(parser.errors) > parser.log[j + 1].before

C5_SemicolonOutcomes ==
    \A j \in Events("semi") :
        /\ TokenAt(parser.log[j].from) = parser.log[j].token
        /\ CASE parser.log[j].outcome = "ExplicitSemicolon" ->
                  parser.log[j].token.k = "Semicolon" /\ parser.log[j].to = parser.log[j].from + 1
             [] parser.log[j].outcome = "ImplicitSemicolon" ->
                  parser.log[j].token.k # "Semicolon" /\ parser.log[j].to = parser.log[j].from
             [] parser.log[j].outcome = "NoSemicolon" ->
                  parser.log[j].to = parser.log[j].from /\ ErrorReported(j)
             [] OTHER -> FALSE

\* all three outcomes have happened in one parse: `a; b <newline> c d`
C5_Witness ==
    /\ \E j \in Events("semi") : parser.log[j].outcome = "ExplicitSemicolon"
    /\ \E j \in Events("semi") : parser.log[j].outcome = "ImplicitSemicolon"
    /\ \E j \in Events("semi") : parser.log[j].outcome = "NoSemicolon"

(***************************************************************************)
(* C6  `for (let x = y in z) body` yields ForIn whose left is the          *)
(* declaration of x with value y and whose right is z: the value of the    *)
(* declarator is rewritten to the left operand of the `in` binary, which   *)
(* is not retained in the initializer.                                     *)
(***************************************************************************)
IsDeclaration(left) == Item(left).type \in {"VariableDeclaration", "Declaration"}

\* the declarators of a declaration, without their locations
Declarators(left) ==
    [n \in 1..Len(Item(left).declarators) |-> Item(Item(left).declarators[n])]

\* the declarator binds the plain name
Binds(d, name) ==
    IF parser.impl = "vec" THEN d.name = name ELSE Item(d.name) = EIdentifier(name)

\* the declarator's initializer, without its location
Initializer(d) == IF d.value = None THEN None ELSE Some(Item(d.value[1]))

LetXYInZ ==
    ForInput(<<Decl("Let"), Ident("x"), Op("Assign"), Ident("y"), Op("In"), Ident("z")>>)

C6_ForInInitializer ==
    parser.src = LetXYInZ =>
        /\ result # None => Accepted /\ Len(body) = 1
        /\ body # <<>> =>
              /\ Statements[1].type = "ForIn"
              /\ IsDeclaration(Statements[1].left)
              /\ Item(Statements[1].left).kind = "Let"
              /\ Len(Declarators(Statements[1].left)) = 1
              /\ Binds(Declarators(Statements[1].left)[1], "x")
              /\ Initializer(Declarators(Statements[1].left)[1]) = Some(EIdentifier("y"))
              /\ Item(Statements[1].right) = EIdentifier("z")

(***************************************************************************)
(* C7  In every ForIn or ForOf of an accepted input, left is a declaration *)
(* with exactly one declarator that has no initializer, or an expression   *)
(* statement; `for (let a, b in o)` and `for (let a = 1 of xs)` yield no   *)
(* ForIn or ForOf.                                                         *)
(***************************************************************************)
\* the for-in and for-of statements parsed so far
ForEachStatements ==
    {j \in Events("statement") : Item(parser.log[j].node).type \in {"ForIn", "ForOf"}}

ForEachLeft(left) ==
    IF IsDeclaration(left)
    THEN Len(Declarators(left)) = 1 /\ Declarators(left)[1].value = None
    ELSE Item(left).type = "Expression"

C7_ForEachLeft ==
    /\ Accepted => \A j \in ForEachStatements : ForEachLeft(Item(parser.log[j].node).left)
    /\ parser.src \in {ForInput(<<Decl("Let"), Ident("a"), T("Comma"), Ident("b"), Op("In"), Ident("o")>>),
                       ForInput(<<Decl("Let"), Ident("a"), Op("Assign"), Num("1"), Ident("of"), Ident("xs")>>)}
          => ForEachStatements = {}

(***************************************************************************)
(* C8  Every Template returned by template_expression, tagged or not, of   *)
(* n interpolations has n expressions and n + 1 quasis, both in source     *)
(* order.                                                                  *)
(***************************************************************************)
\* the template q0 ${ e1 } q1 ... ${ en } qn
TemplateOf(tag, n) ==
    ETemplate(tag, [k \in 1..n |-> Leaf(Hole(k))], [k \in 1..(n + 1) |-> Quasi(k - 1)])

C8_TemplateShape ==
    /\ \A j \in Events("template") :
          Len(parser.log[j].node.quasis) = Len(parser.log[j].node.expressions) + 1
    /\ \A n \in 0..MaxItems :
          /\ parser.src = TemplateTokens(0, n) \o <<EOP>> => ParsedAs(TemplateOf(None, n))
          /\ parser.src = <<Ident("tag")>> \o TemplateTokens(0, n) \o <<EOP>>
                => ParsedAs(TemplateOf(Some(EIdentifier("tag")), n))
          /\ parser.src = <<Tpl("Open", "o0")>> \o TemplateTokens(0, n)
                             \o <<T("BraceClose"), Tpl("Closed", "o1"), EOP>>
                => ParsedAs(ETemplate(None, <<TemplateOf(None, n)>>, <<"o0", "o1">>))

\* tag`q0 ${ e1 } q1 ${ e2 } q2` has been parsed
C8_Witness ==
    /\ parser.impl = "vec"
    /\ parser.src = <<Ident("tag")>> \o TemplateTokens(0, 2) \o <<EOP>>
    /\ Accepted
    /\ body = <<SExpression(ETemplate(Some(EIdentifier("tag")),
                                      <<EIdentifier("e1"), EIdentifier("e2")>>,
                                      <<"q0", "q1", "q2">>))>>
    /\ Events("template") # {}

(***************************************************************************)
(* C9  Every Sequence has at least two elements: sequence_or returns its   *)
(* argument unchanged when the lookahead is not a comma, and wraps it into *)
(* a Sequence only after parsing at least one further expression.          *)
(***************************************************************************)
C9_SequenceLength ==
    /\ \A j \in Events("sequence_or") :
          /\ parser.log[j].out.type = "Sequence" => Len(parser.log[j].out.list) >= 2
          /\ parser.log[j].lookahead # "Comma" => parser.log[j].out = parser.log[j].first
          /\ parser.log[j].lookahead = "Comma" =>
                /\ parser.log[j].out.type = "Sequence"
                /\ Len(parser.log[j].out.list) >= 2
                /\ parser.log[j].out.list[1] = parser.log[j].first
    /\ \A n \in 1..(MaxItems + 1) :
          parser.src = CommaList(n) \o <<EOP>> =>
              ParsedAs(IF n = 1 THEN Leaf(Hole(1)) ELSE ESequence([k \in 1..n |-> Leaf(Hole(k))]))

\* `(e1, e2)` has been parsed: sequence_or has built the Sequence inside the
\* parentheses and has returned it unchanged after them
C9_Witness ==
    /\ parser.src = <<T("ParenOpen")>> \o CommaList(2) \o <<T("ParenClose"), EOP>>
    /\ Accepted
    /\ \E j \in Events("sequence_or") :
          parser.log[j].lookahead = "Comma" /\ Len(parser.log[j].out.list) = 2
    /\ \E j \in Events("sequence_or") :
          /\ parser.log[j].lookahead = "EndOfProgram"
          /\ parser.log[j].out = ESequence(<<EIdentifier("e1"), EIdentifier("e2")>>)

(***************************************************************************)
(* C10  Parentheses around the single parameters of an arrow function do   *)
(* not change the result: `(p1, ..., pn) => body` and                      *)
(* `((p1), ..., (pn)) => body`, each pk a name or `name = default`, yield  *)
(* the same ArrowFunction.                                                 *)
(***************************************************************************)
\* the parameters the list of kinds stands for
ParamsOf(kinds) ==
    [n \in 1..Len(kinds) |->
        Parameter(ParamName(n), IF kinds[n] = "name" THEN None ELSE Some(Leaf(ParamDefault(n))))]

\* the arrow function parsed so far, without its location
ArrowParsed == Item(Item(body[1]).expression)

\* what the other spelling of the same parameter list is parsed to
OtherSpelling(kinds, wrapped) ==
    IF parser.impl = "vec"
    THEN Item(Turn(new("vec", ArrowInput(kinds, ~wrapped))).v.expression)
    ELSE Item(Item(TurnArena(new("arena", ArrowInput(kinds, ~wrapped))).v).expression)

C10_ArrowParentheses ==
    \A kinds \in ParamKinds : \A wrapped \in BOOLEAN :
        parser.src = ArrowInput(kinds, wrapped) =>
            /\ ParsedAs(EArrowFunction(ParamsOf(kinds), SExpression(EIdentifier("x"))))
            /\ body # <<>> => ArrowParsed = OtherSpelling(kinds, wrapped)

\* `((p1), (p2 = 2)) => x` has been parsed
C10_Witness ==
    /\ parser.src = ArrowInput(<<"name", "default">>, TRUE)
    /\ Accepted
    /\ ArrowParsed = EArrowFunction(<<Parameter("p1", None), Parameter("p2", Some(ELiteral("Number", "2")))>>,
                                    SExpression(EIdentifier("x")))
    /\ ArrowParsed = OtherSpelling(<<"name", "default">>, TRUE)

(***************************************************************************)
(* C11  arrow_function_expression builds an ArrowFunction only when the    *)
(* expression before `=>` is an Identifier, a parenthesized Assign binary  *)
(* whose left is an Identifier, or a Sequence of Identifiers and Assign    *)
(* binaries whose left is an Identifier; for any other expression it       *)
(* returns an unexpected-token error and builds nothing.  So every         *)
(* parameter has the name of an identifier, and a default only when it     *)
(* came from an Assign binary.                                             *)
(***************************************************************************)
ParameterShape(e) ==
    \/ e.type = "Identifier"
    \/ e.type = "Binary" /\ e.operator = "Assign" /\ e.left.type = "Identifier"

ArrowShape(e) ==
    \/ e.type = "Identifier"
    \/ e.type = "Binary" /\ e.parenthesized /\ e.operator = "Assign" /\ e.left.type = "Identifier"
    \/ e.type = "Sequence" /\ \A n \in 1..Len(e.list) : ParameterShape(e.list[n])

\* the parameter an expression of ParameterShape stands for
ParameterOf(e) ==
    IF e.type = "Identifier" THEN Parameter(e.name, None)
    ELSE Parameter(e.left.name, Some(e.right))

ParametersOf(e) ==
    IF e.type = "Sequence" THEN [n \in 1..Len(e.list) |-> ParameterOf(e.list[n])]
    ELSE <<ParameterOf(e)>>

\* the calls of arrow_function_expression with an expression before `=>`
ArrowCalls == {j \in Events("arrow") : parser.log[j].before # None}

C11_ArrowShapes ==
    \A j \in ArrowCalls :
        IF ArrowShape(parser.log[j].before[1])
        THEN /\ parser.log[j].node # None
             /\ parser.log[j].node[1].type = "ArrowFunction"
             /\ parser.log[j].node[1].params = ParametersOf(parser.log[j].before[1])
        ELSE parser.log[j].node = None /\ ErrorReported(j)

\* `a => x; 1 => x`: one arrow function built, one expression turned down
C11_Witness ==
    /\ \E j \in ArrowCalls :
          /\ parser.log[j].before = Some(EIdentifier("a"))
          /\ parser.log[j].node # None
    /\ \E j \in ArrowCalls :
          /\ parser.log[j].before = Some(ELiteral("Number", "1"))
          /\ parser.log[j].node = None

(***************************************************************************)
(* C12  In a parameter list every parameter after the first one with a     *)
(* default must have a default too: parameter_list rejects with an         *)
(* unexpected-token error a list in which a parameter without a default    *)
(* follows one with a default, as in `function f(a = 1, b) {}`, and        *)
(* accepts every list whose parameters without a default all come first.   *)
(***************************************************************************)
\* no parameter without a default after one with a default
DefaultsLast(kinds) ==
    \A m \in 1..Len(kinds) : \A n \in 1..Len(kinds) :
        (m < n /\ kinds[m] = "default") => kinds[n] = "default"

\* the parameters of a function statement
FunctionParams(node) ==
    IF "function" \in DOMAIN node THEN node.function.params ELSE node.params

\* the errors of the parse that has ended
ErrorsFound ==
    IF parser.impl = "vec" THEN <<result[1].error>> ELSE parser.errors

C12_DefaultsLast ==
    \A kinds \in FunctionParamKinds :
        (parser.src = FunctionInput(kinds) /\ result # None) =>
            IF DefaultsLast(kinds)
            THEN /\ Accepted
                 /\ Len(body) = 1
                 /\ FunctionParams(Statements[1]) = ParamsOf(kinds)
            ELSE /\ Rejected
                 /\ ErrorsFound # <<>>
                 /\ ErrorsFound[1].type = "UnexpectedToken"

\* `function f(p1 = 1, p2) {}` has been rejected
C12_Witness ==
    /\ parser.impl = "vec"
    /\ parser.src = FunctionInput(<<"default", "name">>)
    /\ Rejected
    /\ result[1].error.type = "UnexpectedToken"

(***************************************************************************)
(* C13  A function or class declaration in statement position needs a     *)
(* name: when the token after `function` or `class` at the start of a      *)
(* statement is no Identifier, as in `function() {}` and `class {}`, an    *)
(* error is reported and parse returns no successful result.               *)
(***************************************************************************)
\* a statement starts at token n with `function` or `class` and no name
Nameless(n) ==
    TokenAt(n).k \in {"Function", "Class"} /\ TokenAt(n + 1).k # "Identifier"

C13_DeclarationNeedsName ==
    /\ \A j \in Events("statement") :
          Nameless(parser.log[j].from) =>
              /\ parser.impl = "arena"
              /\ Item(parser.log[j].node) = SError
              /\ \E n \in 1..Len(parser.errors) :
                    parser.errors[n] = UnexpectedToken(parser.log[j].from + 1)
              /\ result # None => Rejected
    /\ (Nameless(1) /\ result # None) => Rejected /\ ErrorsFound # <<>>
    /\ (Nameless(1) /\ parser.impl = "vec") => body = <<>>

\* `function() {}` has been turned down by the arena parser
C13_Witness ==
    /\ parser.impl = "arena"
    /\ parser.src = <<T("Function"), T("ParenOpen"), T("ParenClose"), T("BraceOpen"),
                      T("BraceClose"), EOP>>
    /\ Rejected
    /\ Item(body[1]) = SError

(***************************************************************************)
(* C14  Whenever a production fails, the error handler appends exactly one *)
(* error record to the errors of the parser, which only grow, by one for   *)
(* each error handled, and returns a placeholder that is the Error variant *)
(* of the AST family at hand: of statements, expressions, class members,   *)
(* object members and declarators.                                         *)
(***************************************************************************)
\* the families of the AST the handler makes placeholders for
NodeFamilies ==
    {"Statement", "StatementPtr", "Expression", "ExpressionPtr", "Declarator", "DeclaratorPtr",
     "ObjectMember", "ObjectMemberPtr", "ClassMemberPtr"}

\* x is an Error node; a declarator, which has no variants, is one when its
\* name is the Error expression and it has no value
IsErrorNode(family, x) ==
    IF family \in {"Declarator", "DeclaratorPtr"}
    THEN Item(Item(x).name) = EError /\ Item(x).value = None
    ELSE Item(x).type \in {"StatementError", "Error", "ClassMemberError"}

\* the errors handled so far, oldest first
HandledErrors == {j \in 1..Len(parser.log) : parser.log[j].ev = "handle_error"}

C14_ErrorHandler ==
    /\ Cardinality(HandledErrors) = Len(parser.errors)
    /\ \A j \in HandledErrors :
          /\ parser.log[j].before = Cardinality({n \in HandledErrors : n < j})
          /\ parser.errors[parser.log[j].before + 1] = parser.log[j].err
          /\ parser.log[j].family \in NodeFamilies =>
                IsErrorNode(parser.log[j].family, parser.log[j].placeholder)

(***************************************************************************)
(* C15  The public parse function returns Ok(Program) with the complete    *)
(* list of top-level statements if and only if no production returned an   *)
(* error; otherwise it returns the one ParseError of the error raised:     *)
(* UnexpectedEndOfProgram for UnexpectedEndOfProgram, UnexpectedToken with *)
(* the same start and end for UnexpectedToken; no part of the body is      *)
(* returned alongside an error.                                            *)
(***************************************************************************)
\* the nodes of the statements parsed so far, in the order they were parsed
StatementsParsed ==
    [n \in 1..Cardinality(Events("statement")) |->
        parser.log[CHOOSE j \in Events("statement") :
                      Cardinality({m \in Events("statement") : m <= j}) = n].node]

\* what a finished parse of parser.rs has returned
ParseReturned ==
    (parser.impl = "vec" /\ result # None) =>
        IF result[1].ok
        THEN /\ DOMAIN result[1] = {"ok", "program"}
             /\ result[1].program.body = body
             /\ body = StatementsParsed
             /\ parser.i = Len(parser.src) + 1
        ELSE /\ DOMAIN result[1] = {"ok", "error"}
             /\ body = <<>>
             /\ result[1].error.type \in {"UnexpectedEndOfProgram", "UnexpectedToken"}
             /\ result[1].error.type = "UnexpectedToken" =>
                   /\ DOMAIN result[1].error = {"type", "start", "end"}
                   /\ result[1].error.start \in 1..Len(parser.src)
                   /\ result[1].error.end = result[1].error.start

\* one step of parse of parser.rs: the result is Ok at the end of the program,
\* the error of the statement that failed otherwise, and nothing before that
ParseStep ==
    parser.impl = "vec" =>
        IF next(parser).v.k = "EndOfProgram"
        THEN result' = Some([ok |-> TRUE, program |-> [body |-> body, errors |-> <<>>]])
        ELSE IF Turn(parser).ok
        THEN result' = None /\ body' = Append(body, Turn(parser).v)
        ELSE result' = Some([ok |-> FALSE, error |-> Turn(parser).err]) /\ body' = <<>>

C15_ParseResult == [] ParseReturned /\ [][ParseStep]_vars

\* `a )` has been parsed: a statement was built, then the parse failed
C15_Witness ==
    /\ parser.impl = "vec"
    /\ parser.src = <<Ident("a"), T("ParenClose"), EOP>>
    /\ Rejected
    /\ result[1].error = UnexpectedToken(2)
    /\ Events("statement") # {}
    /\ body = <<>>

(***************************************************************************)
(* C16  A variable declaration yields one declarator for each item of its  *)
(* comma-separated list, in source order; the list of declarators is never *)
(* empty; a declarator has a value if and only if `=` follows its name; a  *)
(* name is an identifier, an array literal or an object literal, and any   *)
(* other first token is an error.  `var x, y, z = 42;` yields              *)
(* Declaration(Var, [{x, none}, {y, none}, {z, 42}]).                      *)
(***************************************************************************)
\* the name item n of a declaration is parsed to
NameOf(n, form) ==
    CASE form = "identifier" -> EIdentifier(ParamName(n))
      [] form = "array" -> EArray(<<EIdentifier(ParamName(n))>>)
      [] form = "object" -> EObject(<<OShorthand(ParamName(n))>>)

\* the declarators of the declaration statements parsed so far
DeclarationsParsed ==
    {j \in Events("statement") :
        parser.impl = "arena" /\ Item(parser.log[j].node).type = "Declaration"}

\* a name that is an error stands where the token was no name
NameShape(d, token) ==
    CASE token.k = "Identifier" -> Item(d.name) = EIdentifier(token.v)
      [] token.k = "BracketOpen" -> Item(d.name).type \in {"Array", "Error"}
      [] token.k = "BraceOpen" -> Item(d.name).type \in {"Object", "Error"}
      [] OTHER -> Item(d.name) = EError /\ d.value = None /\ parser.errors # <<>>

C16_Declarators ==
    /\ \A j \in DeclarationsParsed :
          /\ Item(parser.log[j].node).declarators # <<>>
          /\ NameShape(Declarators(parser.log[j].node)[1], TokenAt(parser.log[j].from + 1))
    /\ \A kind \in {"Var", "Let", "Const"} : \A kinds \in DeclaratorKinds :
          (parser.impl = "arena" /\ parser.src = DeclarationInput(kind, kinds)) =>
              /\ result # None => Accepted /\ Len(body) = 1
              /\ body # <<>> =>
                    /\ Statements[1].type = "Declaration"
                    /\ Statements[1].kind = kind
                    /\ Len(Declarators(body[1])) = Len(kinds)
                    /\ \A n \in 1..Len(kinds) :
                          /\ Item(Declarators(body[1])[n].name) = NameOf(n, kinds[n][1])
                          /\ Initializer(Declarators(body[1])[n]) =
                                (IF kinds[n][2] THEN Some(Leaf(ParamDefault(n))) ELSE None)
    /\ (parser.impl = "arena" /\ TokenAt(1).k = "Declaration" /\ result # None
            /\ TokenAt(2).k \notin {"Identifier", "BracketOpen", "BraceOpen"}) =>
          /\ Rejected
          /\ parser.errors[1].type = "UnexpectedToken"

\* `var p1, p2, p3 = 3;` has been parsed
C16_Witness ==
    /\ parser.impl = "arena"
    /\ parser.src = DeclarationInput("Var", <<<<"identifier", FALSE>>, <<"identifier", FALSE>>,
                                              <<"identifier", TRUE>>>>)
    /\ Accepted
    /\ Len(Declarators(body[1])) = 3
    /\ Initializer(Declarators(body[1])[1]) = None
    /\ Initializer(Declarators(body[1])[3]) = Some(ELiteral("Number", "3"))

(***************************************************************************)
(* C17  In `for (init; test; update) body` each of init, test and update   *)
(* is optional on its own: the For node has init, test and update exactly  *)
(* for the segments that are not empty in the source, all three None for   *)
(* `for (;;) {}`; the two `;` and the `)` are consumed once each, and body *)
(* is the statement after `)`.                                             *)
(***************************************************************************)
\* an optional node without its location
Opt(x) == IF x = None THEN None ELSE Some(Item(x[1]))

ForInitIs(x, kind) ==
    CASE kind = "none" -> x = None
      [] kind = "declaration" ->
           /\ x # None
           /\ IsDeclaration(x[1])
           /\ Len(Declarators(x[1])) = 1
           /\ Binds(Declarators(x[1])[1], "i")
           /\ Initializer(Declarators(x[1])[1]) = Some(ELiteral("Number", "0"))
      [] kind = "expression" ->
           /\ x # None
           /\ Item(x[1]).type = "Expression"
           /\ Item(Item(x[1]).expression) =
                 EBinary("Assign", EIdentifier("i"), ELiteral("Number", "0"))

ForBodyIs(x, kind) ==
    CASE kind = "empty" -> Item(x) = SEmpty
      [] kind = "block" -> Item(x) = SBlock(<<>>)
      [] kind = "expression" ->
           Item(x).type = "Expression" /\ Item(Item(x).expression) = EIdentifier("b")

C17_ForSegments ==
    \A s \in ForSegments :
        parser.src = CStyleInput(s) =>
            /\ result # None => Accepted /\ Len(body) = 1
            /\ body # <<>> =>
                  /\ Statements[1].type = "For"
                  /\ ForInitIs(Statements[1].init, s[1])
                  /\ Opt(Statements[1].test) =
                        (IF s[2] = "none" THEN None
                         ELSE Some(EBinary("Lesser", EIdentifier("i"), ELiteral("Number", "1"))))
                  /\ Opt(Statements[1].update) =
                        (IF s[3] = "none" THEN None
                         ELSE Some(EPostfix("Increment", EIdentifier("i"))))
                  /\ ForBodyIs(Statements[1].body, s[4])
                  /\ \A j \in Events("statement") :
                        parser.log[j].from = 1 /\ parser.log[j].to = Len(parser.src)

\* `for (;;) {}` has been parsed by the arena parser
C17_Witness ==
    /\ parser.impl = "arena"
    /\ parser.src = CStyleInput(<<"none", "none", "none", "block">>)
    /\ Accepted
    /\ Item(body[1]) = SFor(None, None, None, Loc(0, 0, SBlock(<<>>)))

(***************************************************************************)
(* C18  A `for` head whose first token is neither `;` nor a declaration    *)
(* keyword has its init parsed as a sequence-or-expression:                *)
(* `for (i = 0, j = 1; ; ) {}` is accepted and yields a For whose init is  *)
(* an expression statement holding Sequence[i = 0, j = 1].                 *)
(***************************************************************************)
ForSequenceInit ==
    ESequence(<<EBinary("Assign", EIdentifier("i"), ELiteral("Number", "0")),
                EBinary("Assign", EIdentifier("j"), ELiteral("Number", "1"))>>)

\* the expression, without locations, of an expression statement
RECURSIVE Bare(_)
Bare(e) ==
    LET x == Item(e) IN
    CASE x.type = "Sequence" -> ESequence([n \in 1..Len(x.list) |-> Bare(x.list[n])])
      [] x.type = "Binary" -> EBinary(x.operator, Bare(x.left), Bare(x.right))
      [] x.type = "Conditional" ->
           EConditional(Bare(x.test), Bare(x.consequent), Bare(x.alternate))
      [] OTHER -> x

C18_ForSequenceInit ==
    \A kind \in {"empty", "block", "expression"} :
        parser.src = ForSequenceInput(kind) /\ result # None =>
            /\ Accepted
            /\ Len(body) = 1
            /\ Statements[1].type = "For"
            /\ Statements[1].init # None
            /\ Item(Statements[1].init[1]).type = "Expression"
            /\ Bare(Item(Statements[1].init[1]).expression) = ForSequenceInit
            /\ Statements[1].test = None
            /\ Statements[1].update = None

\* the same, for the parser of parser.rs only
C18_ForSequenceInitVec ==
    parser.impl = "vec" => C18_ForSequenceInit

C18_Witness ==
    /\ parser.impl = "vec"
    /\ parser.src = ForSequenceInput("block")
    /\ Accepted

(***************************************************************************)
(* C19  The do-while statement applies the semicolon rule when it is       *)
(* finished: a `;` after the test is consumed as part of the Do statement  *)
(* and is not a separate Empty statement, and a token on the same line     *)
(* that is neither `;`, `}` nor EndOfProgram is an error.                  *)
(***************************************************************************)
DoParsed(b) ==
    /\ body # <<>>
    /\ Statements[1].type = "Do"
    /\ ForBodyIs(Statements[1].body, b)
    /\ Bare(Statements[1].test) = EIdentifier("a")

C19_DoSemicolon ==
    \A b \in {"empty", "block", "expression"}, kind \in DoTails :
        parser.impl = "arena" /\ parser.src = DoInput(b, kind) /\ result # None =>
            CASE kind = "end" -> Accepted /\ Len(body) = 1 /\ DoParsed(b)
              [] kind = "semicolon" -> Accepted /\ Len(body) = 1 /\ DoParsed(b)
              [] kind = "newline" -> Accepted /\ Len(body) = 2 /\ DoParsed(b)
              [] kind = "token" -> Rejected

\* what the code does with a `;` or a token after the test
C19_DoWithoutSemicolon ==
    \A b \in {"empty", "block", "expression"}, kind \in DoTails :
        parser.impl = "arena" /\ parser.src = DoInput(b, kind) /\ result # None =>
            /\ Accepted
            /\ DoParsed(b)
            /\ Len(body) = (IF kind = "end" THEN 1 ELSE 2)
            /\ kind = "semicolon" => Statements[2] = SEmpty

(***************************************************************************)
(* C20  A try-catch statement needs no terminator: after the `}` closing   *)
(* the catch handler any token on the same line starts the next statement  *)
(* (`try {} catch (e) {} foo();` is a Try followed by an expression        *)
(* statement) and the try production consumes no token after that `}`.     *)
(***************************************************************************)
\* the Try statement has been produced from the tokens of TryHead alone
TryParsed ==
    /\ body # <<>>
    /\ Statements[1].type = "Try"
    /\ IF parser.impl = "arena" THEN Bare(Statements[1].error) = EIdentifier("e")
       ELSE Statements[1].error = "e"
    /\ \E j \in Events("statement") :
          /\ parser.log[j].from = 1
          /\ parser.log[j].to = Len(TryHead) + 1
          /\ Item(parser.log[j].node).type = "Try"

TryFollowedBy(kind) ==
    CASE kind = "end" -> Len(body) = 1
      [] kind = "semicolon" -> Len(body) = 2 /\ Statements[2] = SEmpty
      [] kind = "call" ->
           /\ Len(body) = 2
           /\ Statements[2].type = "Expression"
           /\ Item(Statements[2].expression).type = "Call"
      [] OTHER ->
           /\ Len(body) = 2
           /\ Statements[2].type = "Expression"
           /\ Bare(Statements[2].expression) = EIdentifier("b")

C20_TryNoTerminator ==
    \A kind \in TryTails :
        parser.src = TryInput(kind) /\ result # None =>
            Accepted /\ TryParsed /\ TryFollowedBy(kind)

\* the same, for the parser of parser.rs only
C20_TryNoTerminatorVec ==
    parser.impl = "vec" => C20_TryNoTerminator

C20_Witness ==
    /\ parser.impl = "vec"
    /\ parser.src = TryInput("call")
    /\ Accepted
    /\ Len(body) = 2

(***************************************************************************)
(* C21  An If node has an alternate if and only if the token after its     *)
(* consequent statement is `else`, and in nested unbraced ifs the `else`   *)
(* belongs to the innermost `if`: `if (a) if (b) s1; else s2;` is an outer *)
(* If without alternate whose consequent is an If with alternate s2.       *)
(***************************************************************************)
\* the statement x is what IfBranch(n) spells
BranchIs(x, n) ==
    IF n = "block" THEN Item(x) = SBlock(<<>>)
    ELSE Item(x).type = "Expression" /\ Bare(Item(x).expression) = EIdentifier(n)

\* x is `if (t) c` with the alternate els, "none" for no alternate
IfIs(x, t, c, els) ==
    /\ Item(x).type = "If"
    /\ Bare(Item(x).test) = EIdentifier(t)
    /\ BranchIs(Item(x).consequent, c)
    /\ IF els = "none" THEN Item(x).alternate = None
       ELSE Item(x).alternate # None /\ BranchIs(Item(x).alternate[1], els)

C21_IfAlternate ==
    /\ \A s \in IfShapes :
          parser.src = IfInput(s) /\ result # None =>
              /\ Accepted
              /\ Len(body) = (IF s[3] = "end" THEN 1 ELSE 2)
              /\ IfIs(body[1], "a", s[1], s[2])
              /\ s[3] # "end" => BranchIs(body[2], "e")
    /\ \A els \in BOOLEAN :
          parser.src = NestedIfInput(els) /\ result # None =>
              /\ Accepted
              /\ Len(body) = 1
              /\ Statements[1].type = "If"
              /\ Bare(Statements[1].test) = EIdentifier("a")
              /\ Statements[1].alternate = None
              /\ IfIs(Statements[1].consequent, "b", "c", IF els THEN "d" ELSE "none")

\* `if (a) if (b) c; else d;` has been parsed by the arena parser
C21_Witness ==
    /\ parser.impl = "arena"
    /\ parser.src = NestedIfInput(TRUE)
    /\ Accepted
    /\ Statements[1].alternate = None
    /\ Item(Statements[1].consequent).alternate # None

(***************************************************************************)
(* C22  A statement that starts with an Identifier is a Labeled statement  *)
(* if and only if the very next token is `:`; then the colon is consumed   *)
(* and the body is the single statement that follows, so labels nest.      *)
(* Otherwise the identifier is the first operand of an expression          *)
(* statement, continued by the Pratt loop and the comma-sequence rule and  *)
(* then subject to the semicolon rule.                                     *)
(***************************************************************************)
\* x is the statement `label: body`, body being what IfBranch(n) spells
LabeledIs(x, label, n) ==
    /\ Item(x).type = "Labeled"
    /\ Item(x).label = label
    /\ BranchIs(Item(x).body, n)

\* x is an expression statement of the expression e
ExpressionIs(x, e) == Item(x).type = "Expression" /\ Bare(Item(x).expression) = e

LabelOutcome(kind) ==
    CASE kind = "label" -> Accepted /\ Len(body) = 1 /\ LabeledIs(body[1], "a", "b")
      [] kind = "nested" ->
           /\ Accepted /\ Len(body) = 1
           /\ Statements[1].type = "Labeled" /\ Statements[1].label = "a"
           /\ LabeledIs(Statements[1].body, "b", "c")
      [] kind = "block" -> Accepted /\ Len(body) = 1 /\ LabeledIs(body[1], "a", "block")
      [] kind = "alone" -> Accepted /\ Len(body) = 1 /\ ExpressionIs(body[1], EIdentifier("a"))
      [] kind = "binary" ->
           /\ Accepted /\ Len(body) = 1
           /\ ExpressionIs(body[1], EBinary("Addition", EIdentifier("a"), EIdentifier("b")))
      [] kind = "sequence" ->
           /\ Accepted /\ Len(body) = 1
           /\ ExpressionIs(body[1], ESequence(<<EIdentifier("a"), EIdentifier("b")>>))
      [] kind = "both" ->
           /\ Accepted /\ Len(body) = 1
           /\ ExpressionIs(body[1],
                 ESequence(<<EBinary("Addition", EIdentifier("a"), EIdentifier("b")),
                             EIdentifier("c")>>))
      [] kind = "token" -> Rejected
      [] kind = "newline" ->
           /\ Accepted /\ Len(body) = 2
           /\ ExpressionIs(body[1], EIdentifier("a"))
           /\ ExpressionIs(body[2], EIdentifier("b"))

C22_LabeledOrExpression ==
    \A kind \in LabelKinds :
        parser.src = LabelInput(kind) /\ result # None => LabelOutcome(kind)

\* `a: b: c;` has been parsed by the arena parser
C22_Witness ==
    /\ parser.impl = "arena"
    /\ parser.src = LabelInput("nested")
    /\ Accepted
    /\ Item(Statements[1].body).type = "Labeled"

(***************************************************************************)
(* C23  In a class body a member whose key is followed by `(` is a         *)
(* Constructor if and only if the key is the identifier `constructor` and  *)
(* the member is not static; every other key followed by `(`, `static      *)
(* constructor` included, is a Method with its is_static flag and its key; *)
(* a token after the key other than `(` or `=` is an error.                *)
(***************************************************************************)
\* the members of the class declared by the first statement
ClassMembers ==
    IF parser.impl = "arena" THEN Statements[1].class.body ELSE Statements[1].body

IsClass == body # <<>> /\ Statements[1].type \in {"Class", "ClassStatement"}

ClassKeyOf(k) ==
    CASE k = "constructor" -> KeyLiteral("constructor")
      [] k = "m" -> KeyLiteral("m")
      [] k = "number" -> KeyNumber("1")
      [] k = "computed" -> KeyComputed(EIdentifier("a"))
      [] k = "word" -> KeyLiteral(as_word(T("If"))[1])

C23_ClassMember ==
    \A s \in ClassShapes :
        parser.src = ClassInput(s) /\ result # None =>
            CASE s[3] = "method" ->
                   /\ Accepted /\ Len(body) = 1 /\ IsClass
                   /\ ClassMembers =
                         <<IF s[2] = "constructor" /\ ~s[1] THEN CConstructor(<<>>, <<>>)
                           ELSE CMethod(s[1], ClassKeyOf(s[2]), <<>>, <<>>)>>
              [] s[3] = "property" ->
                   /\ Accepted /\ Len(body) = 1 /\ IsClass
                   /\ Len(ClassMembers) = 1
                   /\ ClassMembers[1].type = "Property"
                   /\ ClassMembers[1].is_static = s[1]
                   /\ ClassMembers[1].key = ClassKeyOf(s[2])
              [] OTHER -> Rejected

\* `class A { static constructor() {} }` has been parsed: a static Method
C23_Witness ==
    /\ parser.impl = "vec"
    /\ parser.src = ClassInput(<<TRUE, "constructor", "method">>)
    /\ Accepted
    /\ ClassMembers[1].type = "Method"
    /\ ClassMembers[1].is_static

(***************************************************************************)
(* C24  After `?` the conditional parses the consequent and then requires  *)
(* `:`: if the token after the consequent is not `:` the result is an      *)
(* unexpected-token error and no Conditional node is produced; every       *)
(* Conditional node produced has test, consequent and alternate.           *)
(***************************************************************************)
\* every Conditional of the expression e has its three parts, none of them a placeholder
RECURSIVE Complete(_)
Complete(e) ==
    CASE e.type = "Conditional" ->
           /\ DOMAIN e = {"type", "test", "consequent", "alternate"}
           /\ \A part \in {e.test, e.consequent, e.alternate} :
                 part # EError /\ Complete(part)
      [] e.type = "Binary" -> Complete(e.left) /\ Complete(e.right)
      [] OTHER -> TRUE

\* the first error of the parse, whichever parser reports it
FirstError == IF parser.impl = "arena" THEN parser.errors[1] ELSE result[1].error

C24_ConditionalColon ==
    \A paren \in BOOLEAN, kind \in ConditionalKinds :
        parser.src = ConditionalInput(paren, kind) /\ result # None =>
            CASE kind = "full" ->
                   /\ Accepted /\ Len(body) = 1
                   /\ ExpressionIs(body[1],
                         EConditional(EIdentifier("a"), EIdentifier("b"), EIdentifier("c")))
              [] kind \in {"chain", "inner"} ->
                   /\ Accepted /\ Len(body) = 1
                   /\ Statements[1].type = "Expression"
                   /\ Bare(Statements[1].expression).type = "Conditional"
                   /\ Complete(Bare(Statements[1].expression))
              [] OTHER ->
                   /\ Rejected
                   /\ FirstError.type = "UnexpectedToken"
                   /\ parser.impl = "vec" =>
                         FirstError = UnexpectedToken((IF paren THEN 5 ELSE 3) + 1)
                   /\ \A n \in 1..Len(body) :
                         Statements[n].type = "Expression" =>
                             Item(Statements[n].expression).type # "Conditional"

\* `a ? b c;` has been rejected at c
C24_Witness ==
    /\ parser.impl = "vec"
    /\ parser.src = ConditionalInput(FALSE, "token")
    /\ Rejected
    /\ result[1].error = UnexpectedToken(4)

(***************************************************************************)
(* C25  Whenever the parser calls a re-entry hook of the lexer,            *)
(* read_regular_expression for a `/` in operand position or                *)
(* read_template_kind after the `}` that closes an interpolation, its      *)
(* one-token lookahead buffer is empty: no token after the `/` or the `}`  *)
(* has been requested from the tokenizer.                                  *)
(***************************************************************************)
\* the calls of the hook of that name, in the parser of parser.rs
Hooks(name) ==
    {j \in Events("hook") : parser.impl = "vec" /\ parser.log[j].name = name}

C25_HooksUnbuffered ==
    \A j \in Hooks("read_regular_expression") \cup Hooks("read_template_kind") :
        /\ ~parser.log[j].buf
        /\ parser.log[j].at > 1
        /\ \/ /\ parser.log[j].name = "read_regular_expression"
              /\ parser.src[parser.log[j].at - 1] = Op("Division")
           \/ /\ parser.log[j].name = "read_template_kind"
              /\ parser.src[parser.log[j].at - 1] = T("BraceClose")

\* a template with a regular expression in its interpolation has been parsed
C25_Witness ==
    /\ parser.src = RegexInput("template")
    /\ Accepted
    /\ Hooks("read_regular_expression") # {}
    /\ Hooks("read_template_kind") # {}

(***************************************************************************)
(* C26  For every finite token stream that ends in EndOfProgram the parse  *)
(* terminates with Ok or Err: every turn of the statement loop consumes at *)
(* least one token or leaves the loop, and a block, list or expression     *)
(* that is still open at EndOfProgram ends in an error.                    *)
(***************************************************************************)
\* the parse has returned
Returned == result # None

\* what is cut short by the end of the program is rejected
UnclosedRejected ==
    \A c \in UnclosedKinds :
        parser.src = UnclosedInput(c) /\ Returned =>
            /\ Rejected
            /\ parser.impl = "vec" => body = <<>>

\* a turn after which the loop goes on has consumed a token, and no token is
\* asked for after EndOfProgram
Progress ==
    /\ result' = None => parser'.i > parser.i
    /\ parser'.impl = "vec" => parser'.i <= Len(parser.src) + 1

C26_Terminates == <> Returned /\ [] UnclosedRejected /\ [][Next /\ Progress]_vars

\* `{ a;` has been rejected by the parser of parser.rs
C26_Witness ==
    /\ parser.impl = "vec"
    /\ parser.src = UnclosedInput("block")
    /\ Rejected

(***************************************************************************)
(* C27  When an expression statement that starts with an identifier fails  *)
(* inside its comma-sequence part, the error the parser returns is the     *)
(* error of that first failure: the semicolon check that follows neither   *)
(* replaces it with a different, later error nor requests further tokens   *)
(* from the tokenizer after the failure.                                   *)
(***************************************************************************)
\* the failure of the sequence of `a , =`: the third token is no operand
SequenceFailure == UnexpectedToken(3)

\* parser.rs has returned from a source whose sequence fails
SequenceFailed(kind) ==
    parser.impl = "vec" /\ parser.src = SequenceFailInput(kind) /\ Returned

C27_FirstFailure ==
    \A kind \in SequenceFailKinds :
        SequenceFailed(kind) =>
            /\ Rejected
            /\ result[1].error = SequenceFailure
            /\ Requested(parser) = SequenceFailure.start

\* the error is the first failure for every continuation
C27_ErrorKept ==
    \A kind \in SequenceFailKinds :
        SequenceFailed(kind) => Rejected /\ result[1].error = SequenceFailure

\* no token is requested after the failure
C27_NoFurtherToken ==
    \A kind \in SequenceFailKinds :
        SequenceFailed(kind) => Requested(parser) = SequenceFailure.start

\* what the code does: the semicolon check reads the next token, and its own
\* error, if it has one, is the error returned
C27_SemicolonAfterFailure ==
    \A kind \in SequenceFailKinds :
        SequenceFailed(kind) =>
            /\ Rejected
            /\ Requested(parser) = SequenceFailure.start + 1
            /\ result[1].error =
                  (IF kind = "token" THEN UnexpectedToken(4) ELSE SequenceFailure)

(***************************************************************************)
(* C28  The rule that no parameter without a default may follow one with   *)
(* a default is enforced alike for arrow functions and for function        *)
(* parameter lists: `(a = 1, b) => x` is rejected exactly when             *)
(* `function f(a = 1, b) {}` is rejected.                                  *)
(***************************************************************************)
\* the parser that is running rejects `function f(...) {}` with these parameters
FunctionRejected(kinds) ==
    IF parser.impl = "vec" THEN ~Turn(new("vec", FunctionInput(kinds))).ok
    ELSE TurnArena(new("arena", FunctionInput(kinds))).p.errors # <<>>

C28_SameDefaultRule ==
    \A kinds \in ParamKinds :
        parser.src = ArrowInput(kinds, FALSE) /\ Returned =>
            (Rejected <=> FunctionRejected(kinds))

\* what the code does: parameter_list alone enforces the rule
C28_ArrowsUnchecked ==
    \A kinds \in ParamKinds :
        parser.src = ArrowInput(kinds, FALSE) /\ Returned =>
            /\ Accepted
            /\ FunctionRejected(kinds) <=> ~DefaultsLast(kinds)

(***************************************************************************)
(* C29  In a class body the `static` keyword is always applied to a        *)
(* member: `static` followed directly by `;` or by the closing `}` is      *)
(* rejected as an unexpected token, never silently dropped, so the number  *)
(* of `static` keywords accepted in a class body equals the number of      *)
(* members emitted with is_static = true.                                  *)
(***************************************************************************)
\* the number of `static` keywords of the source
StaticKeywords == Cardinality({n \in 1..Len(parser.src) : parser.src[n].k = "Static"})

\* the number of members of the class that are static
StaticMembers ==
    Cardinality({n \in 1..Len(ClassMembers) :
                    "is_static" \in DOMAIN ClassMembers[n] /\ ClassMembers[n].is_static})

C29_StaticApplied ==
    /\ \A kind \in StaticKinds :
          parser.src = StaticInput(kind) /\ Returned =>
              Rejected /\ ErrorsFound[1].type = "UnexpectedToken"
    /\ \A src \in ClassInputs \cup StaticInputs :
          parser.src = src /\ Accepted /\ IsClass => StaticKeywords = StaticMembers

\* a `static` with a key is applied to its member
C29_StaticWithKey ==
    \A src \in ClassInputs :
        parser.src = src /\ Accepted /\ IsClass => StaticKeywords = StaticMembers

\* what the code does with a `static` that has no key: it is dropped
C29_StaticDropped ==
    \A kind \in StaticKinds :
        parser.src = StaticInput(kind) /\ Returned =>
            /\ Accepted /\ IsClass
            /\ Len(ClassMembers) = (IF kind \in {"member", "twice"} THEN 1 ELSE 0)
            /\ StaticMembers = (IF kind = "twice" THEN 1 ELSE 0)
            /\ StaticKeywords = StaticMembers + 1

(***************************************************************************)
(* C30  Every expression-statement node carries the (start, end) of the    *)
(* expression it wraps, whatever the first token of the statement is: a    *)
(* statement that begins with an identifier, as `foo();`, is located       *)
(* exactly like one that begins with any other token, as `(foo)();`.       *)
(***************************************************************************)
\* the statement x of the arena parser is located as the expression it wraps
LocatedAsExpression(x) ==
    x.start = x.item.expression.start /\ x.end = x.item.expression.end

\* the source is one expression statement that the arena parser has accepted
LocatedParsed(kind) ==
    /\ parser.impl = "arena"
    /\ parser.src = LocatedInput(kind)
    /\ Accepted

C30_ExpressionStatementLocation ==
    \A kind \in LocatedKinds :
        LocatedParsed(kind) =>
            /\ Len(body) = 1
            /\ body[1].item.type = "Expression"
            /\ LocatedAsExpression(body[1])

\* what the code does: the statement that starts with an identifier is at (0, 0),
\* while its expression is not
C30_IdentifierStatementUnlocated ==
    \A kind \in LocatedKinds :
        LocatedParsed(kind) =>
            /\ Len(body) = 1
            /\ body[1].item.type = "Expression"
            /\ body[1].item.expression.start = 1
            /\ body[1].item.expression.end = Len(parser.src) - 1
            /\ IF kind \in {"identifier", "call", "sequence"}
               THEN body[1].start = 0 /\ body[1].end = 0
               ELSE LocatedAsExpression(body[1])

====
